---- MODULE Spec2Model ----
(***************************************************************************)
(* A model of the conversational runtime and billing envelope of           *)
(* SecretAgentMan: the central identity store (users, subscriptions,       *)
(* token_transactions, telegram_link_codes), the auth service, the token   *)
(* meter, the Cryptomus payment webhook and the HTTP chat handler.         *)
(*                                                                         *)
(* Time is counted in hours (chrono::Duration::hours(1) == 1).             *)
(* An Option<T> is modelled as a set: None == {} and Some(x) == {x}.       *)
(***************************************************************************)
EXTENDS Integers, Sequences, FiniteSets, Bags, TLC

(***************************************************************************)
(* Bounds of the model.                                                    *)
(***************************************************************************)
MaxTx == 2
MaxTicks == 1
MaxCodes == 2
MaxDeliveries == 2
MaxAgents == 1
MaxChats == 1
MaxMicros == 1
MaxUpdates == 3
MaxDistance == 1
MaxPolls == 3
MaxTurns == 2
MaxStamp == 4
MaxOutbox == 2

(***************************************************************************)
(* Program constants.                                                      *)
(***************************************************************************)
HoursPerDay == 24
DefaultTrialDays == 3
SchemaTrialTokenLimit == 100000
LinkCodeHours == 1
WebhookSubscriptionDays == 30
MinPasswordLen == 8
MarkupTenths == 13

None == {}
Some(x) == {x}
Unwrap(o) == CHOOSE x \in o : TRUE

VARIABLES
    users,                \* table users: id -> row
    subscriptions,        \* table subscriptions: user_id -> row
    token_transactions,   \* table token_transactions, a bag of rows
    telegram_link_codes,  \* table telegram_link_codes: code -> row
    codes_issued,         \* how many link codes Uuid::new_v4 has produced
    now,                  \* Utc::now(), in hours
    ticks,                \* how many times the clock has advanced
    trial_days,           \* TokenMeter.trial_days
    cryptomus_api_key,    \* AppState.cryptomus_api_key : Option<String>
    token_meter,          \* AppState.token_meter is Some
    webhooks,             \* webhook deliveries that reached add_tokens
    agents,               \* table agents: id -> row
    memories,             \* table memories: <<agent_id, key>> -> row
    chats,                \* chat requests being served, and served
    micros,               \* Utc::now().timestamp_micros()
    allowed_users,        \* TelegramChannel.allowed_users
    pairing,              \* TelegramChannel.pairing : Option<PairingGuard>
    auth_manager,         \* TelegramChannel.auth_manager is Some
    persisted_users,      \* allowed_users of the Telegram section of config.toml
    offset,               \* the long-poll offset of listen
    current_update,       \* the update listen took from the batch last
    sink,                 \* the messages listen has sent into tx
    outbox,               \* the replies the channel has sent to chats
    sending,              \* the call of send_text_chunks in progress
    tenants,              \* TenantManager.tenants: the user ids with a cached store
    tenant_dirs,          \* the user ids whose directory tenants/<id> exists
    brain_dbs,            \* the user ids whose file tenants/<id>/brain.db exists
    deleting,             \* the calls of delete_tenant between eviction and removal
    batch,                \* the updates of the last getUpdates result not yet taken
    polls,                \* the getUpdates requests listen has made
    sink_open,            \* the receiver of tx is alive
    listen_state          \* where listen is: "poll", "handle" or "returned"

vars == <<users, subscriptions, token_transactions, telegram_link_codes,
          codes_issued, now, ticks, trial_days, cryptomus_api_key,
          token_meter, webhooks, agents, memories, chats, micros,
          allowed_users, pairing, auth_manager, persisted_users, offset,
          current_update, sink, outbox, sending, tenants, tenant_dirs,
          brain_dbs, deleting, batch, polls, sink_open, listen_state>>

centralVars == <<users, subscriptions, token_transactions, telegram_link_codes,
                 codes_issued>>
configVars == <<trial_days, cryptomus_api_key, token_meter>>
clockVars == <<now, ticks>>
chatVars == <<agents, memories, chats, micros>>
telegramVars == <<allowed_users, pairing, auth_manager, persisted_users, offset,
                  current_update, sink, outbox, sending>>
tenantVars == <<tenants, tenant_dirs, brain_dbs, deleting>>
pollVars == <<batch, polls, sink_open, listen_state>>

(***************************************************************************)
(* Small helpers.                                                          *)
(***************************************************************************)
Max(a, b) == IF a >= b THEN a ELSE b

\* f64::round on a non-negative ratio num/den: half away from zero.
RoundDiv(num, den) == (2 * num + den) \div (2 * den)

\* Uuid::new_v4() for a new user: the n-th user registered gets the n-th id.
UserIdSeq == <<"u1", "u2", "u3", "u4">>

(***************************************************************************)
(* Text.  A string the code inspects character by character (an email, a   *)
(* password, an order id) is a sequence of one-character strings.          *)
(***************************************************************************)
\* char::to_lowercase on the characters the model uses.
LowerChar(c) == CASE c = "A" -> "a" [] c = "B" -> "b" [] c = "X" -> "x" [] OTHER -> c

\* str::to_lowercase
to_lowercase(s) == [i \in 1..Len(s) |-> LowerChar(s[i])]

RECURSIVE trim_start(_)
trim_start(s) == IF s # <<>> /\ Head(s) = " " THEN trim_start(Tail(s)) ELSE s

RECURSIVE trim_end(_)
trim_end(s) ==
    IF s # <<>> /\ s[Len(s)] = " " THEN trim_end(SubSeq(s, 1, Len(s) - 1)) ELSE s

\* str::trim
trim(s) == trim_end(trim_start(s))

\* str::contains(char)
contains(s, c) == \E i \in 1..Len(s) : s[i] = c

\* The emails and passwords callers present.
RawEmails == { <<"a", "@", "b", ".", "c">>,
               <<" ", "A", "@", "B", ".", "c", " ">>,
               <<"x", "@", "y", ".", "z">>,
               <<"a", "@", "b">> }
Passwords == { <<"1", "2", "3", "4", "5", "6", "7">>,
               <<"1", "2", "3", "4", "5", "6", "7", "8">> }

\* Argon2 with a per-user salt: the hash verifies exactly the password hashed.
hash_password(password) == <<"argon2", password>>
verify_password(password, password_hash) == password_hash = hash_password(password)

Ok(op, v) == [op |-> op, ok |-> TRUE, val |-> v]
Err(op, msg) == [op |-> op, ok |-> FALSE, val |-> msg]

\* A statement of the SQLite connection may fail (disk full, I/O error); the
\* handlers propagate the error with `?`.  db_err names the statement that
\* fails in a call, "none" when every statement succeeds.
DbErrs == {"none", "first", "second"}

(***************************************************************************)
(* Auth service (src/auth/mod.rs).  Every operation holds the connection   *)
(* mutex from its first statement to its last, so each is one step.        *)
(***************************************************************************)
NextUserId == UserIdSeq[Cardinality(DOMAIN users) + 1]

NewSubscription ==
    [status |-> "trial", trial_started_at |-> Some(now), trial_tokens_used |-> 0,
     trial_tokens_limit |-> SchemaTrialTokenLimit, paid_until |-> None,
     total_tokens_purchased |-> 0]

NewUser(email, password) ==
    [email |-> email, password_hash |-> hash_password(password),
     telegram_id |-> None, telegram_username |-> None, last_login |-> None]

\* What register returns: Ok(user id) or Err(message).  (The JWT issued with
\* the id is left out.)
register_result(email_in, password, db_err) ==
    LET email == to_lowercase(trim(email_in))
        op == "register"
    IN  IF ~contains(email, "@") \/ ~contains(email, ".")
        THEN Err(op, "Invalid email format")
        ELSE IF Len(password) < MinPasswordLen
        THEN Err(op, "Password must be at least 8 characters")
        \* the existence query's error is read as "no such email"
        \* (unwrap_or(false)); the INSERT then fails on UNIQUE(email)
        ELSE IF (\E u \in DOMAIN users : users[u].email = email) /\ db_err # "read"
        THEN Err(op, "Email already registered")
        ELSE IF db_err = "first" \/ \E u \in DOMAIN users : users[u].email = email
        THEN Err(op, "Failed to create user")
        ELSE IF db_err = "second" THEN Err(op, "Failed to create subscription")
        ELSE Ok(op, NextUserId)

\* register storing the email as the caller typed it.
register_unnormalized(email_in, password, db_err) ==
    LET email == to_lowercase(trim(email_in))
    IN  /\ UNCHANGED <<token_transactions, telegram_link_codes, codes_issued>>
        /\ IF \/ ~contains(email, "@") \/ ~contains(email, ".")
              \/ Len(password) < MinPasswordLen
              \/ \E u \in DOMAIN users : users[u].email = email_in
              \/ db_err = "first"
             THEN UNCHANGED <<users, subscriptions>>
             ELSE /\ users' = users @@ (NextUserId :> NewUser(email_in, password))
                  /\ IF db_err = "second"
                       THEN UNCHANGED subscriptions
                       ELSE subscriptions' =
                               subscriptions @@ (NextUserId :> NewSubscription)

\* What register does to the store.
register(email_in, password, db_err) ==
    LET email == to_lowercase(trim(email_in))
    IN  /\ UNCHANGED <<token_transactions, telegram_link_codes, codes_issued>>
        /\ IF \/ ~contains(email, "@") \/ ~contains(email, ".")
              \/ Len(password) < MinPasswordLen
              \/ \E u \in DOMAIN users : users[u].email = email
              \/ db_err = "first"
             THEN UNCHANGED <<users, subscriptions>>
             ELSE /\ users' = users @@ (NextUserId :> NewUser(email, password))
                  /\ IF db_err = "second"
                       THEN UNCHANGED subscriptions
                       ELSE subscriptions' =
                               subscriptions @@ (NextUserId :> NewSubscription)

Register(email_in, password, db_err) ==
    /\ register(email_in, password, db_err)
    /\ UNCHANGED <<configVars, clockVars, chatVars, webhooks, telegramVars, tenantVars, pollVars>>

\* The user row login finds for an email, if any.
UserByEmail(email) == {u \in DOMAIN users : users[u].email = email}

\* What AuthManager::login returns.  (The JWT is left out.)
login_result(email_in, password, db_err) ==
    LET email == to_lowercase(trim(email_in))
        op == "login"
    IN  IF UserByEmail(email) = {} \/ db_err = "first"
        THEN Err(op, "Invalid email or password")
        ELSE LET user_id == Unwrap(UserByEmail(email))
             IN  IF ~verify_password(password, users[user_id].password_hash)
                 THEN Err(op, "Invalid email or password")
                 ELSE IF db_err = "second" THEN Err(op, "database error")
                 ELSE Ok(op, user_id)

\* login stamping last_login as soon as the user row is found.
login_stamp_first(email_in, password, db_err) ==
    LET email == to_lowercase(trim(email_in))
    IN  /\ UNCHANGED <<subscriptions, token_transactions, telegram_link_codes,
                       codes_issued>>
        /\ IF UserByEmail(email) # {} /\ db_err = "none"
             THEN users' = [users EXCEPT
                     ![Unwrap(UserByEmail(email))].last_login = Some(now)]
             ELSE UNCHANGED users

\* What login does to the store: a successful login stamps last_login.
login(email_in, password, db_err) ==
    /\ UNCHANGED <<subscriptions, token_transactions, telegram_link_codes,
                   codes_issued>>
    /\ IF login_result(email_in, password, db_err).ok
         THEN users' = [users EXCEPT
                 ![login_result(email_in, password, db_err).val].last_login =
                     Some(now)]
         ELSE UNCHANGED users

\* handle_login's reply: every error of login becomes the same 401.
handle_login_result(email_in, password, db_err) ==
    IF login_result(email_in, password, db_err).ok
    THEN [status |-> 200, body |-> login_result(email_in, password, db_err).val]
    ELSE [status |-> 401, body |-> "Invalid email or password"]

Login(email_in, password, db_err) ==
    /\ login(email_in, password, db_err)
    /\ UNCHANGED <<configVars, clockVars, chatVars, webhooks, telegramVars, tenantVars, pollVars>>

\* Uuid::new_v4(): a code never produced before.
NextCodeRepeated == Max(codes_issued, 1)
NextCode == codes_issued + 1

\* The rows of telegram_link_codes other than those of `gone`.
WithoutCodes(gone) ==
    [c \in DOMAIN telegram_link_codes \ gone |-> telegram_link_codes[c]]

\* DELETE FROM telegram_link_codes WHERE user_id = ?1: the rows it removes.
CodesOfNobody(user_id) == {}
CodesOf(user_id) ==
    {c \in DOMAIN telegram_link_codes : telegram_link_codes[c].user_id = user_id}

generate_telegram_link_result(user_id, db_err) ==
    LET op == "generate_telegram_link"
    IN  IF db_err = "first" THEN Err(op, "database error")
        \* the INSERT fails: a storage error, or the foreign key on users(id)
        ELSE IF db_err = "second" \/ user_id \notin DOMAIN users
        THEN Err(op, "Failed to create Telegram link code")
        ELSE Ok(op, NextCode)

generate_telegram_link(user_id, db_err) ==
    /\ codes_issued < MaxCodes
    /\ UNCHANGED <<users, subscriptions, token_transactions>>
    /\ IF db_err = "first"
         THEN UNCHANGED <<telegram_link_codes, codes_issued>>
         ELSE IF db_err = "second" \/ user_id \notin DOMAIN users
         THEN /\ telegram_link_codes' = WithoutCodes(CodesOf(user_id))
              /\ UNCHANGED codes_issued
         ELSE /\ telegram_link_codes' =
                    WithoutCodes(CodesOf(user_id)) @@ (NextCode :>
                        [user_id |-> user_id, expires_at |-> now + LinkCodeHours])
              \* the code handed out is one no caller has seen before
              /\ codes_issued' = codes_issued + 1

\* validate_telegram_code without its expiry test.
validate_telegram_code_result_unexpiring(code, db_err) ==
    LET op == "validate_telegram_code"
    IN  IF code \notin DOMAIN telegram_link_codes \/ db_err = "first"
        THEN Err(op, "Invalid or expired link code")
        ELSE IF db_err = "second" THEN Err(op, "database error")
        ELSE Ok(op, telegram_link_codes[code].user_id)

validate_telegram_code_result(code, db_err) ==
    LET op == "validate_telegram_code"
    IN  IF code \notin DOMAIN telegram_link_codes \/ db_err = "first"
        THEN Err(op, "Invalid or expired link code")
        ELSE IF db_err = "second" THEN Err(op, "database error")
        ELSE IF now > telegram_link_codes[code].expires_at
        THEN Err(op, "Link code has expired")
        ELSE Ok(op, telegram_link_codes[code].user_id)

validate_telegram_code(code, db_err) ==
    /\ UNCHANGED <<users, subscriptions, token_transactions, codes_issued>>
    /\ IF code \notin DOMAIN telegram_link_codes \/ db_err # "none"
         THEN UNCHANGED telegram_link_codes
         ELSE telegram_link_codes' = WithoutCodes({code})

link_telegram_result(user_id, telegram_id, telegram_username, db_err) ==
    LET op == "link_telegram"
    IN  IF \E u \in DOMAIN users :
                users[u].telegram_id = Some(telegram_id) /\ u # user_id
        THEN Err(op, "This Telegram account is already linked to another user")
        ELSE IF db_err # "none" THEN Err(op, "Failed to link Telegram account")
        ELSE Ok(op, user_id)

link_telegram_unchecked(user_id, telegram_id, telegram_username, db_err) ==
    /\ UNCHANGED <<subscriptions, token_transactions, telegram_link_codes,
                   codes_issued>>
    /\ IF db_err # "none"
         THEN UNCHANGED users
         ELSE users' = [u \in DOMAIN users |->
                         IF u = user_id
                         THEN [users[u] EXCEPT
                                !.telegram_id = Some(telegram_id),
                                !.telegram_username = telegram_username]
                         ELSE users[u]]

link_telegram(user_id, telegram_id, telegram_username, db_err) ==
    /\ UNCHANGED <<subscriptions, token_transactions, telegram_link_codes,
                   codes_issued>>
    /\ IF \/ \E u \in DOMAIN users :
                users[u].telegram_id = Some(telegram_id) /\ u # user_id
          \/ db_err # "none"
         THEN UNCHANGED users
         ELSE users' = [u \in DOMAIN users |->
                         IF u = user_id
                         THEN [users[u] EXCEPT
                                !.telegram_id = Some(telegram_id),
                                !.telegram_username = telegram_username]
                         ELSE users[u]]

GenerateTelegramLink(user_id, db_err) ==
    /\ generate_telegram_link(user_id, db_err)
    /\ UNCHANGED <<configVars, clockVars, chatVars, webhooks, telegramVars, tenantVars, pollVars>>

ValidateTelegramCode(code, db_err) ==
    /\ validate_telegram_code(code, db_err)
    /\ UNCHANGED <<configVars, clockVars, chatVars, webhooks, telegramVars, tenantVars, pollVars>>

LinkTelegram(user_id, telegram_id, telegram_username, db_err) ==
    /\ link_telegram(user_id, telegram_id, telegram_username, db_err)
    /\ UNCHANGED <<configVars, clockVars, chatVars, webhooks, telegramVars, tenantVars, pollVars>>

\* The wall clock moves on.
Tick(d) ==
    /\ ticks < MaxTicks
    /\ now' = now + d
    /\ ticks' = ticks + 1
    /\ UNCHANGED <<centralVars, configVars, chatVars, webhooks, telegramVars, tenantVars, pollVars>>

(***************************************************************************)
(* f64 arithmetic.  A finite non-negative f64 is [m |-> bits, e |-> k],    *)
(* standing for m * 2^k: m is the significand, least significant bit       *)
(* first, of at most 53 bits, odd unless the value is zero (m = <<>>).     *)
(* Every operation computes the exact result and rounds it once to 53 bits,*)
(* ties to even, as IEEE 754 does.  The values of the model are far from   *)
(* the subnormal and the infinite range.                                   *)
(***************************************************************************)
MantissaBits == 53

RECURSIVE nat_bits(_)
nat_bits(n) == IF n = 0 THEN <<>> ELSE <<n % 2>> \o nat_bits(n \div 2)

RECURSIVE bits_nat(_)
bits_nat(b) == IF b = <<>> THEN 0 ELSE Head(b) + 2 * bits_nat(Tail(b))

RECURSIVE pow2(_)
pow2(k) == IF k = 0 THEN 1 ELSE 2 * pow2(k - 1)

zeros(k) == [i \in 1..k |-> 0]

\* b without its most significant zeros.
trim_bits(b) ==
    IF \A i \in 1..Len(b) : b[i] = 0 THEN <<>>
    ELSE SubSeq(b, 1, CHOOSE i \in 1..Len(b) :
                        b[i] = 1 /\ \A j \in (i + 1)..Len(b) : b[j] = 0)

\* Bits lo..hi of a + b + carry, and the carry out of bit hi.
RECURSIVE add_range(_, _, _, _, _)
add_range(a, b, lo, hi, carry) ==
    IF lo = hi
    THEN LET s == (IF lo <= Len(a) THEN a[lo] ELSE 0)
                  + (IF lo <= Len(b) THEN b[lo] ELSE 0) + carry
         IN  [s |-> <<s % 2>>, c |-> s \div 2]
    ELSE LET mid == (lo + hi) \div 2
             low == add_range(a, b, lo, mid, carry)
             high == add_range(a, b, mid + 1, hi, low.c)
         IN  [s |-> low.s \o high.s, c |-> high.c]

add_bits(a, b, carry) ==
    LET n == IF Len(a) >= Len(b) THEN Len(a) ELSE Len(b)
        sum == add_range(a, b, 1, n, carry)
    IN  IF n = 0 THEN (IF carry = 1 THEN <<1>> ELSE <<>>)
        ELSE IF sum.c = 1 THEN Append(sum.s, 1) ELSE sum.s

\* a times bits lo..hi of b (each bit at its own weight).
RECURSIVE mul_range(_, _, _, _)
mul_range(a, b, lo, hi) ==
    IF lo = hi THEN (IF b[lo] = 1 THEN zeros(lo - 1) \o a ELSE <<>>)
    ELSE LET mid == (lo + hi) \div 2
         IN  add_bits(mul_range(a, b, lo, mid), mul_range(a, b, mid + 1, hi), 0)

mul_bits(a, b) == IF b = <<>> THEN <<>> ELSE mul_range(a, b, 1, Len(b))

\* m * 2^e with the low zeros of m moved into the exponent.
normal(m, e) ==
    IF \A i \in 1..Len(m) : m[i] = 0 THEN [m |-> <<>>, e |-> 0]
    ELSE LET k == CHOOSE i \in 1..Len(m) : m[i] = 1 /\ \A j \in 1..(i - 1) : m[j] = 0
         IN  [m |-> trim_bits(SubSeq(m, k, Len(m))), e |-> e + k - 1]

\* The f64 nearest to n * 2^e (plus a non-zero part below the last bit of n
\* when sticky), n given by its bits: round to nearest, ties to even.
round53(n, e, sticky) ==
    IF Len(n) <= MantissaBits THEN normal(n, e)
    ELSE LET drop == Len(n) - MantissaBits
             kept == SubSeq(n, drop + 1, Len(n))
             below == sticky \/ \E i \in 1..(drop - 1) : n[i] = 1
             up == n[drop] = 1 /\ (below \/ kept[1] = 1)
         IN  normal(IF up THEN add_bits(kept, <<>>, 1) ELSE kept, e + drop)

\* `n as f64` of an integer below 2^53.
to_f64(n) == normal(nat_bits(n), 0)

\* Bits given most significant first, least significant first.
lsb_first(q) == [i \in 1..Len(q) |-> q[Len(q) + 1 - i]]

\* Long division of bits hi..lo of n (r the remainder of the bits above hi)
\* by the integer d: the quotient's bits hi..lo, most significant first, and
\* the remainder.
RECURSIVE div_range(_, _, _, _, _)
div_range(n, hi, lo, r, d) ==
    IF lo = hi
    THEN LET v == 2 * r + n[lo]
         IN  IF v >= d THEN [q |-> <<1>>, r |-> v - d] ELSE [q |-> <<0>>, r |-> v]
    ELSE LET mid == (lo + hi) \div 2
             high == div_range(n, hi, mid + 1, r, d)
             low == div_range(n, mid, lo, high.r, d)
         IN  [q |-> high.q \o low.q, r |-> low.r]

\* a / d for an integer d the f64 holds exactly.
f64_div(a, d) ==
    LET shift == MantissaBits + 2 + Len(nat_bits(d))
        res == div_range(zeros(shift) \o a.m, shift + Len(a.m), 1, 0, d)
    IN  IF a.m = <<>> THEN a ELSE round53(trim_bits(lsb_first(res.q)), a.e - shift, res.r # 0)

f64_mul(a, b) ==
    IF b.m = <<>> \/ a.m = <<>> THEN normal(<<>>, 0)
    ELSE round53(IF Len(a.m) <= Len(b.m) THEN mul_bits(b.m, a.m)
                 ELSE mul_bits(a.m, b.m), a.e + b.e, FALSE)

f64_add(a, b) ==
    IF a.m = <<>> THEN b
    ELSE IF b.m = <<>> THEN a
    ELSE LET e == IF a.e <= b.e THEN a.e ELSE b.e
         IN  round53(add_bits(zeros(a.e - e) \o a.m, zeros(b.e - e) \o b.m, 0),
                     e, FALSE)

\* f64::round() as i64: the nearest integer, a half going away from zero.
f64_round(x) ==
    IF x.e >= 0 THEN bits_nat(x.m) * pow2(x.e)
    ELSE LET k == -x.e
         IN  (IF k < Len(x.m) THEN bits_nat(SubSeq(x.m, k + 1, Len(x.m))) ELSE 0)
             + (IF k <= Len(x.m) /\ x.m[k] = 1 THEN 1 ELSE 0)

\* A decimal literal of the source, given in thousandths (0.075 == 75): the
\* compiler takes the f64 nearest to it.
f64_lit(thousandths) == f64_div(to_f64(thousandths), 1000)

(***************************************************************************)
(* Token meter (src/billing/mod.rs).                                       *)
(***************************************************************************)
\* default_provider_costs(): key "provider:model" -> ProviderCost.  A rate is
\* kept in thousandths of a USD per 1M tokens (0.075 USD == 75).
ProviderCost(name, model, input_cost, output_cost) ==
    [name |-> name, model |-> model,
     input_cost_per_1m |-> input_cost, output_cost_per_1m |-> output_cost]

default_provider_costs ==
    (<<"groq", "llama-3.3-70b">> :> ProviderCost("groq", "llama-3.3-70b-versatile", 0, 0))
 @@ (<<"groq", "llama-3.1-8b">> :> ProviderCost("groq", "llama-3.1-8b-instant", 0, 0))
 @@ (<<"deepseek", "v3">> :> ProviderCost("deepseek", "deepseek-chat", 140, 280))
 @@ (<<"google", "gemini-2.0-flash">> :> ProviderCost("google", "gemini-2.0-flash-exp", 75, 300))
 @@ (<<"google", "gemini-1.5-flash">> :> ProviderCost("google", "gemini-1.5-flash", 75, 300))
 @@ (<<"openrouter", "kimi-k2.5">> :> ProviderCost("openrouter", "moonshotai/kimi-k2.5", 500, 500))
 @@ (<<"anthropic", "claude-3.5-sonnet">> :>
        ProviderCost("anthropic", "claude-3-5-sonnet-20241022", 3000, 15000))
 @@ (<<"anthropic", "claude-3-haiku">> :>
        ProviderCost("anthropic", "claude-3-haiku-20240307", 250, 1250))
 @@ (<<"openai", "gpt-4o-mini">> :> ProviderCost("openai", "gpt-4o-mini", 150, 600))
 @@ (<<"openai", "gpt-4o">> :> ProviderCost("openai", "gpt-4o", 2500, 10000))

\* The provider a key "provider:model" starts with when the provider's own
\* name holds a colon ("groq:eu" starts with "groq:").
ScopedProviders == ("groq:eu" :> "groq")

\* key.starts_with(&format!("{}:", name)) for key = "provider:model".
key_starts_with(provider, name) ==
    \/ provider = name
    \/ provider \in DOMAIN ScopedProviders /\ ScopedProviders[provider] = name

\* The entries calculate_cost may take its rate from: the exact key, else any
\* entry of the provider (HashMap::values().find() takes the first match in
\* the map's iteration order, which the program does not fix).
cost_config(provider, model) ==
    IF <<provider, model>> \in DOMAIN default_provider_costs
    THEN {default_provider_costs[<<provider, model>>]}
    ELSE {default_provider_costs[k] : k \in
            {k \in DOMAIN default_provider_costs :
                \/ default_provider_costs[k].name = provider
                \/ key_starts_with(provider, default_provider_costs[k].name)}}

\* (tokens as f64 / 1_000_000.0) * rate
usd_of(tokens, rate) == f64_mul(f64_div(to_f64(tokens), 1000000), rate)

\* (usd * 100.0).round() as i64
to_cents(usd) == f64_round(f64_mul(to_f64(100), usd))

\* The cents calculate_cost may return.  The token counts of the model are
\* small enough for the u32 sum of the fallback not to wrap.
calculate_cost(provider, model, input_tokens, output_tokens) ==
    IF cost_config(provider, model) = {}
    THEN {to_cents(usd_of(input_tokens + output_tokens, f64_lit(1000)))}
    ELSE {to_cents(f64_add(usd_of(input_tokens, f64_lit(c.input_cost_per_1m)),
                           usd_of(output_tokens, f64_lit(c.output_cost_per_1m)))) :
            c \in cost_config(provider, model)}

\* An INSERT into token_transactions (a bag of rows: the row ids and the
\* insertion order are left out).  The row's user_id REFERENCES users(id).
InsertTransaction(row) == token_transactions' = token_transactions (+) SetToBag({row})

\* UPDATE subscriptions SET ... WHERE user_id = ?: `changed` gives the new row
\* of each user; only the row of user_id, if there is one, is replaced.
UpdateSubscription(user_id, changed) ==
    subscriptions' = [u \in DOMAIN subscriptions |->
                        IF u = user_id THEN changed[u] ELSE subscriptions[u]]

\* SET trial_tokens_used = trial_tokens_used + ?1
BumpUsedForgetful(row, total_tokens) == [row EXCEPT !.trial_tokens_used = total_tokens]
BumpUsed(row, total_tokens) == [row EXCEPT !.trial_tokens_used = @ + total_tokens]

\* SET status = 'active', paid_until = ?1
\* An activation that puts an active row back on trial.
ActivateRowToggle(row, days) ==
    [row EXCEPT !.status = IF row.status = "active" THEN "trial" ELSE "active",
                !.paid_until = Some(now + days * HoursPerDay)]
ActivateRowPast(row, days) ==
    [row EXCEPT !.status = "active", !.paid_until = Some(now - days * HoursPerDay)]
ActivateRow(row, days) ==
    [row EXCEPT !.status = "active", !.paid_until = Some(now + days * HoursPerDay)]

\* SET total_tokens_purchased = total_tokens_purchased + ?1
CreditRow(row, tokens) == [row EXCEPT !.total_tokens_purchased = @ + tokens]

record_usage_result(user_id, provider, model, input_tokens, output_tokens, cost_cents, db_err) ==
    LET op == "record_usage"
    IN  IF db_err = "first" \/ user_id \notin DOMAIN users
        THEN Err(op, "Failed to record token transaction")
        ELSE IF db_err = "second" THEN Err(op, "Failed to update trial tokens")
        ELSE Ok(op, [user_id |-> user_id, input_tokens |-> input_tokens,
                     output_tokens |-> output_tokens, cost_cents |-> cost_cents,
                     price_cents |-> RoundDiv(cost_cents * MarkupTenths, 10)])

record_usage(user_id, provider, model, input_tokens, output_tokens, cost_cents, db_err) ==
    LET price_cents == RoundDiv(cost_cents * MarkupTenths, 10)
        total_tokens == input_tokens + output_tokens
        bumped == [u \in DOMAIN subscriptions |->
                     BumpUsed(subscriptions[u], total_tokens)]
    IN  /\ UNCHANGED <<users, telegram_link_codes, codes_issued>>
        /\ IF db_err = "first" \/ user_id \notin DOMAIN users
             THEN UNCHANGED <<token_transactions, subscriptions>>
             ELSE /\ BagCardinality(token_transactions) < MaxTx
                  /\ InsertTransaction(
                        [user_id |-> user_id, amount |-> -total_tokens,
                         cost_cents |-> cost_cents, price_cents |-> price_cents,
                         provider |-> Some(provider), model |-> Some(model),
                         description |-> "usage"])
                  /\ IF db_err = "second"
                       THEN UNCHANGED subscriptions
                       ELSE UpdateSubscription(user_id, bumped)
        /\ cost_cents \in calculate_cost(provider, model, input_tokens, output_tokens)

\* check_access with the trial window tested before the token limit.
check_access_window_first(user_id) ==
    IF user_id \notin DOMAIN subscriptions THEN "UserNotFound"
    ELSE LET sub == subscriptions[user_id] IN
         CASE sub.status = "active" ->
                IF sub.paid_until # None /\ now > Unwrap(sub.paid_until)
                THEN "SubscriptionRequired" ELSE "Allowed"
           [] sub.status = "trial" ->
                IF sub.trial_started_at # None
                   /\ now > Unwrap(sub.trial_started_at) + trial_days * HoursPerDay
                THEN "TrialExpired"
                ELSE IF sub.trial_tokens_used >= sub.trial_tokens_limit
                THEN "TrialExhausted" ELSE "Allowed"
           [] OTHER -> "SubscriptionRequired"

\* The AccessResult of check_access(user_id) on the stored rows at time `now`.
check_access(user_id) ==
    IF user_id \notin DOMAIN subscriptions THEN "UserNotFound"
    ELSE LET sub == subscriptions[user_id] IN
         CASE sub.status = "active" ->
                IF sub.paid_until # None /\ now > Unwrap(sub.paid_until)
                THEN "SubscriptionRequired" ELSE "Allowed"
           [] sub.status = "trial" ->
                IF sub.trial_tokens_used >= sub.trial_tokens_limit
                THEN "TrialExhausted"
                ELSE IF sub.trial_started_at # None
                        /\ now > Unwrap(sub.trial_started_at) + trial_days * HoursPerDay
                THEN "TrialExpired" ELSE "Allowed"
           [] OTHER -> "SubscriptionRequired"

\* get_trial_remaining(user_id): Ok(remaining) or Err.
get_trial_remaining(user_id) ==
    IF user_id \notin DOMAIN subscriptions
    THEN Err("get_trial_remaining", "Subscription not found")
    ELSE Ok("get_trial_remaining",
            Max(subscriptions[user_id].trial_tokens_limit
                  - subscriptions[user_id].trial_tokens_used, 0))

\* activate_subscription and add_tokens are also called by the webhook handler,
\* which turns their Result into its own reply: the Result is *_result, the
\* effect on the store is the operation.
activate_subscription_result(user_id, days, db_err) ==
    IF db_err # "none"
    THEN Err("activate_subscription", "Failed to activate subscription")
    ELSE Ok("activate_subscription", user_id)

activate_subscription(user_id, days, db_err) ==
    LET activated == [u \in DOMAIN subscriptions |-> ActivateRow(subscriptions[u], days)]
    IN  /\ UNCHANGED <<users, token_transactions, telegram_link_codes, codes_issued>>
        /\ IF db_err # "none"
             THEN UNCHANGED subscriptions
             ELSE UpdateSubscription(user_id, activated)

\* add_tokens whose Result hides its failures.
add_tokens_result_silent(user_id, tokens, price_cents, db_err) ==
    Ok("add_tokens", user_id)

add_tokens_result(user_id, tokens, price_cents, db_err) ==
    IF db_err = "first" \/ user_id \notin DOMAIN users
    THEN Err("add_tokens", "Failed to record token purchase")
    ELSE IF db_err = "second"
    THEN Err("add_tokens", "Failed to update purchased tokens")
    ELSE Ok("add_tokens", user_id)

add_tokens(user_id, tokens, price_cents, db_err) ==
    LET credited == [u \in DOMAIN subscriptions |-> CreditRow(subscriptions[u], tokens)]
    IN  /\ UNCHANGED <<users, telegram_link_codes, codes_issued>>
        /\ IF db_err = "first" \/ user_id \notin DOMAIN users
             THEN UNCHANGED <<token_transactions, subscriptions>>
             ELSE /\ BagCardinality(token_transactions) < MaxTx
                  /\ InsertTransaction(
                        [user_id |-> user_id, amount |-> tokens, cost_cents |-> 0,
                         price_cents |-> price_cents, provider |-> None,
                         model |-> None, description |-> "Token purchase"])
                  /\ IF db_err = "second"
                       THEN UNCHANGED subscriptions
                       ELSE UpdateSubscription(user_id, credited)

\* The token meter called directly.
RecordUsage(user_id, provider, model, input_tokens, output_tokens, cost_cents, db_err) ==
    /\ record_usage(user_id, provider, model, input_tokens, output_tokens,
                    cost_cents, db_err)
    /\ UNCHANGED <<configVars, clockVars, chatVars, webhooks, telegramVars, tenantVars, pollVars>>

ActivateSubscription(user_id, days, db_err) ==
    /\ activate_subscription(user_id, days, db_err)
    /\ UNCHANGED <<configVars, clockVars, chatVars, webhooks, telegramVars, tenantVars, pollVars>>

AddTokens(user_id, tokens, price_cents, db_err) ==
    /\ add_tokens(user_id, tokens, price_cents, db_err)
    /\ UNCHANGED <<configVars, clockVars, chatVars, webhooks, telegramVars, tenantVars, pollVars>>

(***************************************************************************)
(* Payment webhook (src/gateway/payment_handlers.rs).                      *)
(***************************************************************************)
\* TOKEN_PACKAGES: name -> package.
TOKEN_PACKAGES ==
    ("100k" :> [tokens |-> 100000, price_cents |-> 500])
 @@ ("500k" :> [tokens |-> 500000, price_cents |-> 2000])
 @@ ("1m" :> [tokens |-> 1000000, price_cents |-> 3500])
 @@ ("5m" :> [tokens |-> 5000000, price_cents |-> 15000])

\* TokenPackage::find
TokenPackageFind(name) ==
    IF name \in DOMAIN TOKEN_PACKAGES THEN Some(TOKEN_PACKAGES[name]) ELSE None

\* PaymentStatus::from lower-cases the status before matching it.
lower_status(s) == CASE s = "PAID" -> "paid" [] s = "Paid_Over" -> "paid_over" [] OTHER -> s

\* PaymentStatus::from(..).is_successful()
is_successful(status) == lower_status(status) \in {"paid", "paid_over"}

\* An order id is a sequence of tokens, "_" being the underscore character
\* and every other token a piece of text without underscores.
RECURSIVE split_underscore(_)
\* str::split('_'): the pieces between the underscores, each a token sequence.
split_underscore(s) ==
    IF \A i \in 1..Len(s) : s[i] # "_" THEN <<s>>
    ELSE LET k == CHOOSE i \in 1..Len(s) :
                    s[i] = "_" /\ \A j \in 1..(i - 1) : s[j] # "_"
         IN  <<SubSeq(s, 1, k - 1)>> \o split_underscore(SubSeq(s, k + 1, Len(s)))

\* The text of a piece: its one token, or the empty string.
PieceText(piece) == IF Len(piece) = 1 THEN piece[1] ELSE ""

\* MD5(base64(json of the fields other than sign, keys sorted) + api_key), as
\* hex digits: equal digests come from equal fields and equal keys.
md5_sign(fields, api_key) == [data |-> fields, key |-> api_key, hexcase |-> "lower"]

\* str::to_lowercase on a hex digest.
lower_hex(sign) == [sign EXCEPT !.hexcase = "lower"]

\* The payload without its sign field.
SignedFields(payload) ==
    [uuid |-> payload.uuid, order_id |-> payload.order_id,
     status |-> payload.status, amount |-> payload.amount]

\* A verification that looks at the key of the signature and not at what was
\* signed.
verify_signature_key_only(payload, received_sign, api_key) ==
    lower_hex(received_sign).key = api_key

\* verify_cryptomus_signature: the digest of the payload's fields other than
\* sign, with the API key, compared with the received one in lower case.
verify_cryptomus_signature(payload, received_sign, api_key) ==
    lower_hex(md5_sign(SignedFields(payload), api_key)) = lower_hex(received_sign)

Http(status, success, message) ==
    [op |-> "webhook", ok |-> success, val |-> message, status |-> status]

\* The handler's reply: the three refusals, and 200 for everything else,
\* whether or not anything was credited.
webhook_result(payload) ==
    IF ~token_meter THEN Http(503, FALSE, Some("Payments not configured"))
    ELSE IF ~payload.parses THEN Http(400, FALSE, Some("Invalid payload"))
    ELSE IF /\ cryptomus_api_key # None
            /\ payload.sign # None
            /\ ~verify_cryptomus_signature(payload, Unwrap(payload.sign),
                                           Unwrap(cryptomus_api_key))
    THEN Http(401, FALSE, Some("Invalid signature"))
    ELSE Http(200, TRUE, None)

\* Whether the handler reaches its add_tokens call: no refusal, a successful
\* status, an order id "user_<id>_pkg_<name>" and a known package.
webhook_credits(payload) ==
    LET parts == split_underscore(payload.order_id)
    IN  /\ webhook_result(payload).status = 200
        /\ is_successful(payload.status)
        /\ Len(parts) >= 4 /\ parts[1] = <<"user">> /\ parts[3] = <<"pkg">>
        /\ TokenPackageFind(PieceText(parts[4])) # None

\* The handler up to the end of its add_tokens call: a delivery whose
\* add_tokens succeeded goes on to WebhookActivate, every other is answered.
WebhookReceive(payload, db_err) ==
    LET parts == split_underscore(payload.order_id)
        user_id == PieceText(parts[2])
        package == Unwrap(TokenPackageFind(PieceText(parts[4])))
    IN  /\ UNCHANGED <<configVars, clockVars, chatVars, telegramVars, tenantVars, pollVars>>
        /\ IF ~webhook_credits(payload)
             THEN UNCHANGED <<centralVars, webhooks>>
             ELSE /\ add_tokens(user_id, package.tokens, package.price_cents, db_err)
                  /\ IF add_tokens_result(user_id, package.tokens,
                                          package.price_cents, db_err).ok
                       THEN /\ Len(webhooks) < MaxDeliveries
                            /\ webhooks' = Append(webhooks,
                                  [payload |-> payload, user_id |-> user_id,
                                   pc |-> "activate"])
                       ELSE UNCHANGED webhooks

\* The rest of the handler: activate_subscription(user_id, 30), whose error is
\* only logged, then the reply 200.
WebhookActivate(i, db_err) ==
    /\ i \in 1..Len(webhooks)
    /\ webhooks[i].pc = "activate"
    /\ activate_subscription(webhooks[i].user_id, WebhookSubscriptionDays, db_err)
    /\ webhooks' = [webhooks EXCEPT ![i].pc = "done"]
    /\ UNCHANGED <<configVars, clockVars, chatVars, telegramVars, tenantVars, pollVars>>

\* The webhook payloads that arrive: a correctly signed paid notification and
\* its variants (sign in upper case, no sign, sign made with another key, a
\* field altered after signing), other orders and statuses, and a payload
\* that lacks a required field.
Order(user_id, package_name) == <<"user", "_", user_id, "_", "pkg", "_", package_name>>
Payload(uuid, order_id, status, amount) ==
    [uuid |-> uuid, order_id |-> order_id, status |-> status, amount |-> amount,
     sign |-> None, parses |-> TRUE]
Signed(payload, api_key) ==
    [payload EXCEPT !.sign = Some(md5_sign(SignedFields(payload), api_key))]
PaidU1 == Payload("pay1", Order("u1", "100k"), "paid", "5.00")
Payloads ==
    { Signed(PaidU1, "key"),
      Signed([PaidU1 EXCEPT !.status = "PAID"], "key"),
      [PaidU1 EXCEPT !.sign =
          Some([md5_sign(SignedFields(PaidU1), "key") EXCEPT !.hexcase = "upper"])],
      PaidU1,
      Signed(PaidU1, "wrong"),
      [Signed(PaidU1, "key") EXCEPT !.order_id = Order("u1", "5m")],
      Signed(Payload("pay2", Order("u2", "500k"), "paid_over", "20.00"), "key"),
      Signed(Payload("pay2", Order("u1", "100k"), "process", "5.00"), "key"),
      Signed(Payload("pay2", Order("u1", "9k"), "paid", "5.00"), "key"),
      Signed(Payload("pay2", <<"order", "_", "u1">>, "paid", "5.00"), "key"),
      Signed(Payload("pay2", Order("u1", "100k") \o <<"_", "x">>, "paid", "5.00"), "key"),
      [Signed(PaidU1, "key") EXCEPT !.parses = FALSE] }

(***************************************************************************)
(* Agents, their memory and the chat handler (src/api/agents.rs,           *)
(* src/db/agent.rs, src/memory/postgres.rs).                               *)
(***************************************************************************)
AgentIdSeq == <<"a1", "a2", "a3">>

\* The id the agents table gives the next row.
NextAgentId == AgentIdSeq[Cardinality(DOMAIN agents) + 1]

\* AgentRepository::create, called by create_agent for the authenticated user.
create_agent_result(user_id, db_err) ==
    IF db_err # "none"
    THEN [op |-> "create_agent", ok |-> FALSE, val |-> "Failed to create agent",
          status |-> 500]
    ELSE [op |-> "create_agent", ok |-> TRUE, val |-> NextAgentId, status |-> 201]

CreateAgent(user_id, db_err) ==
    /\ user_id \in DOMAIN users
    /\ Cardinality(DOMAIN agents) < MaxAgents
    /\ IF db_err # "none"
         THEN UNCHANGED agents
         ELSE agents' = agents @@ (NextAgentId :>
                            [user_id |-> user_id, telegram |-> None])
    /\ UNCHANGED <<centralVars, configVars, clockVars, webhooks, telegramVars, tenantVars, pollVars,
                   memories, chats,
                   micros>>

\* MemoryCategory::Custom("history")
HistoryCategory == "history"

\* format!("hist_{}_user", timestamp) and its assistant counterpart.
HistKey(timestamp, role) == <<"hist", timestamp, role>>

\* embedder.embed_one: the vector of a text.
embed_one(text) == <<"vector", text>>

\* store whose conflict clause names the key alone.
memory_store_any_agent(agent_id, key, content, category) ==
    [k \in DOMAIN memories \cup {<<agent_id, key>>} |->
        IF k[2] = key
        THEN [content |-> content, category |-> category,
              embedding |-> embed_one(content), created_at |-> micros]
        ELSE memories[k]]

\* store whose conflict clause leaves the category as it was.
memory_store_keep_category(agent_id, key, content, category) ==
    [k \in DOMAIN memories \cup {<<agent_id, key>>} |->
        IF k = <<agent_id, key>>
        THEN [content |-> content,
              category |-> IF k \in DOMAIN memories THEN memories[k].category
                           ELSE category,
              embedding |-> embed_one(content), created_at |-> micros]
        ELSE memories[k]]

\* PostgresMemory::store: an upsert on (agent_id, key) that stamps created_at.
memory_store(agent_id, key, content, category) ==
    [k \in DOMAIN memories \cup {<<agent_id, key>>} |->
        IF k = <<agent_id, key>>
        THEN [content |-> content, category |-> category,
              embedding |-> embed_one(content), created_at |-> micros]
        ELSE memories[k]]

\* The keys of one agent's rows.
AgentKeys(agent_id) == {k \in DOMAIN memories : k[1] = agent_id}

\* The MemoryEntry built from a row.
MemoryEntry(k) ==
    [key |-> k[2], content |-> memories[k].content,
     category |-> memories[k].category, timestamp |-> memories[k].created_at]

\* PostgresMemory::get
memory_get(agent_id, key) ==
    IF <<agent_id, key>> \in DOMAIN memories
    THEN Some(MemoryEntry(<<agent_id, key>>)) ELSE None

\* PostgresMemory::count
memory_count(agent_id) == Cardinality(AgentKeys(agent_id))

\* PostgresMemory::forget: rows_affected() > 0, and the table afterwards.
memory_forget_result(agent_id, key) == <<agent_id, key>> \in DOMAIN memories

memory_forget(agent_id, key) ==
    [k \in DOMAIN memories \ {<<agent_id, key>>} |-> memories[k]]

\* PostgresMemory::list without a category: the agent's rows ordered by
\* created_at descending, rows of equal created_at in any order.
memory_list_all(agent_id) ==
    LET keys == AgentKeys(agent_id)
        n == Cardinality(keys)
    IN  {s \in [1..n -> keys] :
            /\ \A i, j \in 1..n : i # j => s[i] # s[j]
            /\ \A i, j \in 1..n :
                 i < j => memories[s[i]].created_at >= memories[s[j]].created_at}

\* The values `embedding <=> $2::vector` can take: cosine distances, coarsely.
Distances == 0..MaxDistance

\* The distances from the query's vector to the vectors of the stored contents.
\* The embedder gives equal texts equal vectors, so a content equal to the query
\* is at distance 0; what it gives different texts is the embedder's affair.
query_distances(agent_id, query) ==
    LET contents == {memories[k].content : k \in AgentKeys(agent_id)}
    IN  {d \in [contents -> Distances] :
            \A c \in contents : embed_one(c) = embed_one(query) => d[c] = 0}

\* PostgresMemory::recall: the agent's rows ordered by the distance of their
\* content's vector to the query's vector, cut at `limit`; rows at the same
\* distance come in any order.  The key takes no part in the order.
memory_recall(agent_id, query, limit) ==
    LET keys == AgentKeys(agent_id)
        n == IF limit < Cardinality(keys) THEN limit ELSE Cardinality(keys)
    IN  {s \in [1..n -> keys] :
            /\ \A i, j \in 1..n : i # j => s[i] # s[j]
            /\ \E d \in query_distances(agent_id, query) :
                 /\ \A i, j \in 1..n :
                      i < j => d[memories[s[i]].content] <= d[memories[s[j]].content]
                 /\ \A i \in 1..n, k \in keys \ {s[j] : j \in 1..n} :
                      d[memories[s[i]].content] <= d[memories[k].content]}

\* A caller stores through the memory bound to agent_id; when the embedder
\* fails nothing is written.
MemoryStore(agent_id, key, content, category, embed_ok) ==
    /\ IF embed_ok
         THEN memories' = memory_store(agent_id, key, content, category)
         ELSE UNCHANGED memories
    /\ UNCHANGED <<centralVars, configVars, clockVars, webhooks, telegramVars, tenantVars, pollVars,
                   agents, chats, micros>>

MemoryForget(agent_id, key) ==
    /\ memories' = memory_forget(agent_id, key)
    /\ UNCHANGED <<centralVars, configVars, clockVars, webhooks, telegramVars, tenantVars, pollVars,
                   agents, chats, micros>>

\* The keys of one agent's rows of a category.
CategoryKeys(agent_id, category) ==
    {k \in DOMAIN memories : k[1] = agent_id /\ memories[k].category = category}

\* PostgresMemory::list with a category: the rows ordered by created_at
\* descending, rows of equal created_at in any order.
memory_list(agent_id, category) ==
    LET keys == CategoryKeys(agent_id, category)
        n == Cardinality(keys)
    IN  {s \in [1..n -> keys] :
            /\ \A i, j \in 1..n : i # j => s[i] # s[j]
            /\ \A i, j \in 1..n :
                 i < j => memories[s[i]].created_at >= memories[s[j]].created_at}

\* Vec::reverse
reverse(s) == [i \in 1..Len(s) |-> s[Len(s) + 1 - i]]

\* A key "hist_<t>_<role>" split at its underscores has three parts.
HistoryMessage(k) == [role |-> k[2][3], content |-> memories[k].content]

\* The conversation the turn runs on: the listed entries oldest first, those
\* whose role is neither user nor assistant left out.
history_of(listed) ==
    SelectSeq([i \in 1..Len(listed) |-> HistoryMessage(reverse(listed)[i])],
              LAMBDA m : m.role \in {"user", "assistant"})

\* chat without the comparison of agent.user_id with the caller.
chat_lookup_result_unowned(caller, agent_id, db_err) ==
    IF db_err # "none"
    THEN [op |-> "chat", ok |-> FALSE, val |-> "Database error", status |-> 500]
    ELSE IF agent_id \notin DOMAIN agents
    THEN [op |-> "chat", ok |-> FALSE, val |-> "Agent not found", status |-> 404]
    ELSE [op |-> "chat", ok |-> TRUE, val |-> "turn", status |-> 0]

\* chat, up to the agent lookup: the reply when the handler stops there.
chat_lookup_result(caller, agent_id, db_err) ==
    IF db_err # "none"
    THEN [op |-> "chat", ok |-> FALSE, val |-> "Database error", status |-> 500]
    ELSE IF agent_id \notin DOMAIN agents
    THEN [op |-> "chat", ok |-> FALSE, val |-> "Agent not found", status |-> 404]
    ELSE IF agents[agent_id].user_id # caller
    THEN [op |-> "chat", ok |-> FALSE, val |-> "Access denied", status |-> 403]
    ELSE [op |-> "chat", ok |-> TRUE, val |-> "turn", status |-> 0]

\* A request enters the handler; one that passes the lookup goes on to load
\* the history.
chat_request(caller, agent_id, message, db_err) ==
    /\ caller \in DOMAIN users
    /\ IF chat_lookup_result(caller, agent_id, db_err).ok
         THEN chats' = Append(chats,
                 [user_id |-> caller, agent_id |-> agent_id, message |-> message,
                  pc |-> "load", history |-> <<>>, response_text |-> None,
                  status |-> 0])
         ELSE UNCHANGED chats
    /\ UNCHANGED <<centralVars, configVars, clockVars, webhooks, telegramVars, tenantVars, pollVars,
                   agents, memories,
                   micros>>

\* The handler serves at most MaxChats requests.
ChatLookup(caller, agent_id, message, db_err) ==
    /\ Len(chats) < MaxChats
    /\ chat_request(caller, agent_id, message, db_err)

\* memory.list(history) and agent.set_history.
ChatLoadHistory(i) ==
    /\ i \in 1..Len(chats)
    /\ chats[i].pc = "load"
    /\ \E listed \in memory_list(chats[i].agent_id, HistoryCategory) :
          chats' = [chats EXCEPT ![i].history = history_of(listed),
                                 ![i].pc = "turn"]
    /\ UNCHANGED <<centralVars, configVars, clockVars, webhooks, telegramVars, tenantVars, pollVars,
                   agents, memories,
                   micros>>

\* A turn that saves the user's message before it knows the model's answer.
ChatTurnStoresFirst(i, answer) ==
    /\ i \in 1..Len(chats)
    /\ chats[i].pc = "turn"
    /\ IF answer = None
         THEN chats' = [chats EXCEPT ![i].pc = "done", ![i].status = 500]
         ELSE chats' = [chats EXCEPT ![i].pc = "store_user",
                                     ![i].response_text = answer]
    /\ memories' = memory_store(chats[i].agent_id, HistKey(micros, "user"),
                                chats[i].message, HistoryCategory)
    /\ UNCHANGED <<centralVars, configVars, clockVars, webhooks, telegramVars, tenantVars, pollVars,
                   agents, micros>>

\* agent.turn(message): the language model is called and answers or fails.
ChatTurn(i, answer) ==
    /\ i \in 1..Len(chats)
    /\ chats[i].pc = "turn"
    /\ IF answer = None
         THEN chats' = [chats EXCEPT ![i].pc = "done", ![i].status = 500]
         ELSE chats' = [chats EXCEPT ![i].pc = "store_user",
                                     ![i].response_text = answer]
    /\ UNCHANGED <<centralVars, configVars, clockVars, webhooks, telegramVars, tenantVars, pollVars,
                   agents, memories,
                   micros>>

\* memory.store(hist_<micros>_user, message), its error ignored.
ChatStoreUser(i, db_err) ==
    /\ i \in 1..Len(chats)
    /\ chats[i].pc = "store_user"
    /\ IF db_err # "none"
         THEN UNCHANGED memories
         ELSE memories' = memory_store(chats[i].agent_id, HistKey(micros, "user"),
                                       chats[i].message, HistoryCategory)
    /\ chats' = [chats EXCEPT ![i].pc = "store_assistant"]
    /\ UNCHANGED <<centralVars, configVars, clockVars, webhooks, telegramVars, tenantVars, pollVars,
                   agents, micros>>

\* memory.store(hist_<micros + 1>_assistant, response), its error ignored,
\* then the reply 200.
ChatStoreAssistant(i, db_err) ==
    /\ i \in 1..Len(chats)
    /\ chats[i].pc = "store_assistant"
    /\ IF db_err # "none"
         THEN UNCHANGED memories
         ELSE memories' = memory_store(chats[i].agent_id,
                                       HistKey(micros + 1, "assistant"),
                                       Unwrap(chats[i].response_text),
                                       HistoryCategory)
    /\ chats' = [chats EXCEPT ![i].pc = "done", ![i].status = 200]
    /\ UNCHANGED <<centralVars, configVars, clockVars, webhooks, telegramVars, tenantVars, pollVars,
                   agents, micros>>

\* GET /agents/:id
get_agent_result(caller, agent_id, db_err) ==
    IF db_err # "none"
    THEN [op |-> "get_agent", ok |-> FALSE, val |-> "Database error",
          status |-> 500]
    ELSE IF agent_id \notin DOMAIN agents
    THEN [op |-> "get_agent", ok |-> FALSE, val |-> "Agent not found",
          status |-> 404]
    ELSE IF agents[agent_id].user_id # caller
    THEN [op |-> "get_agent", ok |-> FALSE, val |-> "Access denied",
          status |-> 403]
    ELSE [op |-> "get_agent", ok |-> TRUE, val |-> agents[agent_id],
          status |-> 200]

\* POST /telegram/:id/connect: find_by_id is the first statement,
\* update_config the second.
connect_telegram_result(caller, agent_id, db_err) ==
    IF db_err = "first"
    THEN [op |-> "connect_telegram", ok |-> FALSE, val |-> "Database error",
          status |-> 500]
    ELSE IF agent_id \notin DOMAIN agents
    THEN [op |-> "connect_telegram", ok |-> FALSE, val |-> "Agent not found",
          status |-> 404]
    ELSE IF agents[agent_id].user_id # caller
    THEN [op |-> "connect_telegram", ok |-> FALSE, val |-> "Access denied",
          status |-> 403]
    ELSE IF db_err = "second"
    THEN [op |-> "connect_telegram", ok |-> FALSE,
          val |-> "Failed to update config", status |-> 500]
    ELSE [op |-> "connect_telegram", ok |-> TRUE, val |-> "Telegram connected",
          status |-> 200]

\* The agent's config gets channels.telegram = {bot_token, allowed_users: ["*"]}.
ConnectTelegram(caller, agent_id, token, db_err) ==
    /\ caller \in DOMAIN users
    /\ IF connect_telegram_result(caller, agent_id, db_err).ok
         THEN agents' = [agents EXCEPT ![agent_id].telegram =
                            Some([bot_token |-> token, allowed_users |-> {<<"*">>}])]
         ELSE UNCHANGED agents
    /\ UNCHANGED <<centralVars, configVars, clockVars, webhooks, telegramVars, tenantVars, pollVars,
                   memories, chats, micros>>

\* A microsecond passes.
micros_advance(limit) ==
    /\ micros < limit
    /\ micros' = micros + 1
    /\ UNCHANGED <<centralVars, configVars, clockVars, webhooks, telegramVars, tenantVars, pollVars,
                   agents, memories,
                   chats>>

MicrosTick == micros_advance(MaxMicros)

(***************************************************************************)
(* Telegram channel (src/channels/telegram.rs).  listen is one task: it    *)
(* parses and handles the updates of a batch one after the other, so the   *)
(* handling of one update is one step.  A message text is the sequence of  *)
(* its whitespace-separated words (what str::split_whitespace yields), and *)
(* a word is a sequence of tokens in which "@" stands for itself; a user   *)
(* name or numeric id is a sequence of one-character strings.              *)
(***************************************************************************)
TELEGRAM_BIND_COMMAND == <<"/bind">>
TELEGRAM_START_COMMAND == <<"/start">>

\* The allowlist entry that admits everyone, and the name the channel gives a
\* sender whose update carries no username.
Star == <<"*">>
Unknown == <<"u", "n", "k", "n", "o", "w", "n">>

\* str::trim_start_matches(char)
RECURSIVE trim_start_matches(_, _)
trim_start_matches(s, c) ==
    IF s # <<>> /\ Head(s) = c THEN trim_start_matches(Tail(s), c) ELSE s

\* str::starts_with
starts_with(s, prefix) ==
    Len(prefix) <= Len(s) /\ SubSeq(s, 1, Len(prefix)) = prefix

normalize_identity(value) == trim_start_matches(trim(value), "@")

normalize_allowed_users(entries) ==
    {normalize_identity(entry) : entry \in entries} \ {<<>>}

\* is_user_allowed that accepts an entry the identity merely starts with.
is_user_allowed_prefix(username) ==
    LET identity == normalize_identity(username)
    IN  \E u \in allowed_users : u = Star \/ starts_with(identity, u)

is_user_allowed(username) ==
    LET identity == normalize_identity(username)
    IN  \E u \in allowed_users : u = Star \/ u = identity

is_any_user_allowed(identities) == \E id \in identities : is_user_allowed(id)

\* command.split('@').next(): the tokens of a word before its first "@".
RECURSIVE before_at(_)
before_at(word) ==
    IF word = <<>> \/ Head(word) = "@" THEN <<>>
    ELSE <<Head(word)>> \o before_at(Tail(word))

\* The second word of a text as a code, when it has one.
second_word(text) ==
    IF Len(text) >= 2 /\ text[2] # <<>> THEN Some(text[2][1]) ELSE None

extract_bind_code(text) ==
    IF text = <<>> \/ before_at(text[1]) # TELEGRAM_BIND_COMMAND THEN None
    ELSE second_word(text)

\* parse_start_command: "not_start", "plain", or the link code.
parse_start_command(text) ==
    IF text = <<>> \/ before_at(text[1]) # TELEGRAM_START_COMMAND
    THEN [kind |-> "NotStart", code |-> None]
    ELSE IF second_word(text) # None
    THEN [kind |-> "LinkCode", code |-> second_word(text)]
    ELSE [kind |-> "Plain", code |-> None]

\* The pairing guard (crate::security::pairing): a one-time bind code; a wrong
\* code may start a lockout window, during which every attempt is refused.
PairingCode == "pair1"
PairingGuard_new == [code |-> Some(PairingCode), locked |-> FALSE]
pairing_code(guard) == guard.code

try_pair_result(guard, code) ==
    IF guard.locked THEN "lockout"
    ELSE IF guard.code = Some(code) THEN "paired"
    ELSE "invalid"

\* The guard after try_pair; lock_now says whether this failure is the one
\* that starts the lockout window.
try_pair(guard, code, lock_now) ==
    CASE try_pair_result(guard, code) = "paired" -> [guard EXCEPT !.code = None]
      [] try_pair_result(guard, code) = "invalid" ->
            [guard EXCEPT !.locked = lock_now]
      [] OTHER -> guard

pairing_code_active ==
    pairing # None /\ pairing_code(Unwrap(pairing)) # None

\* TelegramChannel::new
NewChannel(configured, auth) ==
    [allowed_users |-> normalize_allowed_users(configured),
     pairing |-> IF normalize_allowed_users(configured) = {}
                 THEN Some(PairingGuard_new) ELSE None,
     auth_manager |-> auth]

\* The state in which a channel built by TelegramChannel::new starts to
\* listen: nothing polled, forwarded or sent yet.
TelegramChannel_new(configured, auth) ==
    /\ allowed_users = NewChannel(configured, auth).allowed_users
    /\ pairing = NewChannel(configured, auth).pairing
    /\ auth_manager = NewChannel(configured, auth).auth_manager
    /\ persisted_users = configured
    /\ offset = 0
    /\ current_update = None
    /\ sink = <<>>
    /\ outbox = <<>>
    /\ sending = None

\* Channel::listen when it is called: no request made, the orchestrator is
\* receiving.
listen_start ==
    /\ batch = <<>>
    /\ polls = <<>>
    /\ sink_open = TRUE
    /\ listen_state = "poll"

\* add_allowed_identity_runtime that forgets the identity.
add_allowed_identity_dropped(identity) ==
    allowed_users \ {normalize_identity(identity)}

\* The allowlist after add_allowed_identity_runtime.
add_allowed_identity_runtime(identity) ==
    IF normalize_identity(identity) = <<>> THEN allowed_users
    ELSE allowed_users \cup {normalize_identity(identity)}

\* persist_allowed_identity: its result, and config.toml after it.
persist_allowed_identity_result(identity, persist_ok) ==
    persist_ok /\ normalize_identity(identity) # <<>>

persist_allowed_identity(identity, persist_ok) ==
    IF persist_allowed_identity_result(identity, persist_ok)
    THEN persisted_users \cup {normalize_identity(identity)}
    ELSE persisted_users

\* AuthManager::link_telegram_by_code: validate_telegram_code, then
\* link_telegram for the user the code names.
link_telegram_by_code_result(code, telegram_id, telegram_username) ==
    LET validated == validate_telegram_code_result(code, "none")
    IN  IF ~validated.ok THEN validated
        ELSE link_telegram_result(validated.val, telegram_id,
                                  telegram_username, "none")

link_telegram_by_code(code, telegram_id, telegram_username) ==
    /\ UNCHANGED <<subscriptions, token_transactions, codes_issued>>
    /\ telegram_link_codes' =
            IF code \in DOMAIN telegram_link_codes
            THEN WithoutCodes({code}) ELSE telegram_link_codes
    /\ users' =
            IF link_telegram_by_code_result(code, telegram_id,
                                            telegram_username).ok
            THEN [u \in DOMAIN users |->
                    IF u = telegram_link_codes[code].user_id
                    THEN [users[u] EXCEPT
                            !.telegram_id = Some(telegram_id),
                            !.telegram_username = telegram_username]
                    ELSE users[u]]
            ELSE users

\* The fields the channel reads from an update.
username_of(update) ==
    IF update.username = None THEN Unknown ELSE Unwrap(update.username)

identities_of(update) == {username_of(update)} \cup update.user_id

sender_identity(update) ==
    IF username_of(update) = Unknown
    THEN (IF update.user_id = None THEN Unknown ELSE Unwrap(update.user_id))
    ELSE username_of(update)

\* parse_update_message that leaves /start <code> and /bind <code> to the
\* handler of unauthorized messages.
parse_update_message_chat_only(update) ==
    IF \/ update.text = None
       \/ ~is_any_user_allowed(identities_of(update))
       \/ update.chat_id = None
       \/ extract_bind_code(Unwrap(update.text)) # None
       \/ parse_start_command(Unwrap(update.text)).kind = "LinkCode"
    THEN None
    ELSE Some([id |-> <<"telegram", Unwrap(update.chat_id), update.message_id>>,
               sender |-> sender_identity(update),
               reply_target |-> Unwrap(update.chat_id),
               content |-> Unwrap(update.text),
               channel |-> "telegram"])

\* parse_update_message: the ChannelMessage of an update, if it yields one.
parse_update_message(update) ==
    IF \/ update.text = None
       \/ ~is_any_user_allowed(identities_of(update))
       \/ update.chat_id = None
    THEN None
    ELSE Some([id |-> <<"telegram", Unwrap(update.chat_id), update.message_id>>,
               sender |-> sender_identity(update),
               reply_target |-> Unwrap(update.chat_id),
               content |-> Unwrap(update.text),
               channel |-> "telegram"])

\* normalized_user_id.or_else(username unless empty or "unknown")
stable_identity(update) ==
    IF update.user_id # None
    THEN Some(normalize_identity(Unwrap(update.user_id)))
    ELSE IF normalize_identity(username_of(update)) \in {<<>>, Unknown}
    THEN None
    ELSE Some(normalize_identity(username_of(update)))

\* The username handed to link_telegram_by_code.
tg_username(update) ==
    IF normalize_identity(username_of(update)) \in {<<>>, Unknown}
    THEN None
    ELSE Some(normalize_identity(username_of(update)))

SendMessage(text, chat_id) == [content |-> text, recipient |-> chat_id]

\* Which branch of handle_unauthorized_message an update takes.
unauthorized_branch(update) ==
    IF update.text = None \/ update.chat_id = None THEN "skip"
    ELSE IF is_any_user_allowed(
                {normalize_identity(id) : id \in identities_of(update)})
    THEN "skip"
    ELSE IF extract_bind_code(Unwrap(update.text)) # None THEN "bind"
    ELSE parse_start_command(Unwrap(update.text)).kind

\* The replies handle_unauthorized_message sends for an update.
unauthorized_replies(update, persist_ok) ==
    LET text == Unwrap(update.text)
        chat_id == Unwrap(update.chat_id)
        branch == unauthorized_branch(update)
        code == Unwrap(extract_bind_code(text))
        link == Unwrap(parse_start_command(text).code)
        telegram_id == IF update.user_id = None THEN Unknown
                       ELSE Unwrap(update.user_id)
    IN  CASE branch = "skip" -> <<>>
          [] branch = "bind" /\ pairing = None ->
                <<SendMessage("Telegram pairing is not active", chat_id)>>
          [] branch = "bind" /\ pairing # None ->
                (CASE try_pair_result(Unwrap(pairing), code) = "lockout" ->
                        <<SendMessage("Too many invalid attempts", chat_id)>>
                   [] try_pair_result(Unwrap(pairing), code) = "invalid" ->
                        <<SendMessage("Invalid binding code", chat_id)>>
                   [] OTHER ->
                        IF stable_identity(update) = None
                        THEN <<SendMessage(
                                "Could not identify your Telegram account",
                                chat_id)>>
                        ELSE IF persist_allowed_identity_result(
                                    Unwrap(stable_identity(update)), persist_ok)
                        THEN <<SendMessage(
                                "Telegram account bound successfully", chat_id)>>
                        ELSE <<SendMessage(
                                "Bound for this runtime, but failed to persist config",
                                chat_id)>>)
          [] branch = "LinkCode" /\ ~auth_manager ->
                <<SendMessage("operator authorization is needed", chat_id)>>
          [] branch = "LinkCode" /\ auth_manager ->
                IF link_telegram_by_code_result(link, telegram_id,
                                                tg_username(update)).ok
                THEN <<SendMessage("Telegram linked to your account", chat_id)>>
                ELSE <<SendMessage("The code is invalid or has expired",
                                   chat_id)>>
          [] branch = "Plain" -> <<SendMessage("welcome", chat_id)>>
          [] OTHER ->
                <<SendMessage("This bot requires operator approval", chat_id)>>
                \o (IF pairing_code_active
                    THEN <<SendMessage("you can also run /bind <code>",
                                       chat_id)>>
                    ELSE <<>>)

\* handle_unauthorized_message: what it does to the channel and, through the
\* auth manager, to the tables.
handle_unauthorized_message(update, persist_ok, lock_now) ==
    LET text == Unwrap(update.text)
        branch == unauthorized_branch(update)
        code == Unwrap(extract_bind_code(text))
        link == Unwrap(parse_start_command(text).code)
        telegram_id == IF update.user_id = None THEN Unknown
                       ELSE Unwrap(update.user_id)
        paired == /\ branch = "bind" /\ pairing # None
                  /\ try_pair_result(Unwrap(pairing), code) = "paired"
        linking == branch = "LinkCode" /\ auth_manager
        linked == /\ linking
                  /\ link_telegram_by_code_result(link, telegram_id,
                                                  tg_username(update)).ok
        added == (paired \/ linked) /\ stable_identity(update) # None
    IN  /\ outbox' = outbox \o unauthorized_replies(update, persist_ok)
        /\ pairing' = IF branch = "bind" /\ pairing # None
                      THEN Some(try_pair(Unwrap(pairing), code, lock_now))
                      ELSE pairing
        /\ allowed_users' =
                IF added
                THEN add_allowed_identity_runtime(Unwrap(stable_identity(update)))
                ELSE allowed_users
        /\ persisted_users' =
                IF added
                THEN persist_allowed_identity(Unwrap(stable_identity(update)),
                                              persist_ok)
                ELSE persisted_users
        /\ IF linking
             THEN link_telegram_by_code(link, telegram_id, tg_username(update))
             ELSE UNCHANGED centralVars

\* One iteration of the `for update in results` loop of listen: the offset
\* moves past the update, then the update is forwarded or handled.
ListenUpdate(message, persist_ok, lock_now) ==
    LET update == [update_id |-> offset, message_id |-> offset, text |-> message.text,
                   username |-> message.username, user_id |-> message.user_id,
                   chat_id |-> message.chat_id]
    IN  /\ offset < MaxUpdates
        /\ offset' = update.update_id + 1
        /\ current_update' = Some(update)
        /\ IF parse_update_message(update) # None
             THEN /\ sink' = Append(sink, Unwrap(parse_update_message(update)))
                  /\ UNCHANGED <<centralVars, allowed_users, pairing,
                                 persisted_users, outbox>>
             ELSE /\ handle_unauthorized_message(update, persist_ok, lock_now)
                  /\ UNCHANGED sink
        /\ UNCHANGED <<configVars, clockVars, chatVars, webhooks, auth_manager,
                       sending, tenantVars, pollVars>>

\* The lockout window of the pairing guard runs out.
PairingUnlock ==
    /\ pairing # None /\ Unwrap(pairing).locked
    /\ pairing' = Some([Unwrap(pairing) EXCEPT !.locked = FALSE])
    /\ UNCHANGED <<centralVars, configVars, clockVars, chatVars, webhooks,
                   allowed_users, auth_manager, persisted_users, offset,
                   current_update, sink, outbox, sending, tenantVars, pollVars>>

(***************************************************************************)
(* The long-poll loop of Channel::listen, request by request.  A getUpdates*)
(* request ends in one of five ways: the HTTP call fails ("http"), the     *)
(* body is no JSON ("parse"), the server answers ok=false with code 409    *)
(* ("409") or with another code ("api"), or it answers with a batch of     *)
(* updates ("ok"; no result array counts as an empty batch).  An update of *)
(* a batch carries its update_id as an Option.  The typing indicator sent  *)
(* before a forward has its errors ignored and is left out.                *)
(***************************************************************************)
PollOutcomes == {"http", "parse", "409", "api", "ok"}

\* The seconds listen sleeps before it polls again.
backoff_secs(outcome) ==
    CASE outcome = "409" -> 2
      [] outcome \in {"http", "parse", "api"} -> 5
      [] OTHER -> 0

\* One getUpdates request of the loop and the answer to it.
ListenPoll(outcome, results) ==
    /\ listen_state = "poll"
    /\ batch = <<>>
    /\ Len(polls) < MaxPolls
    /\ polls' = Append(polls, [offset |-> offset, outcome |-> outcome,
                               sleep |-> backoff_secs(outcome)])
    /\ batch' = IF outcome = "ok" THEN results ELSE <<>>
    /\ UNCHANGED <<centralVars, configVars, clockVars, chatVars, webhooks,
                   telegramVars, tenantVars, sink_open, listen_state>>

\* ListenTake that leaves the offset where it was.
ListenTakeKeepsOffset ==
    /\ listen_state = "poll"
    /\ batch # <<>>
    /\ current_update' = Some(Head(batch))
    /\ batch' = Tail(batch)
    /\ listen_state' = "handle"
    /\ UNCHANGED <<centralVars, configVars, clockVars, chatVars, webhooks,
                   allowed_users, pairing, auth_manager, persisted_users, sink,
                   outbox, sending, tenantVars, polls, sink_open, offset>>

\* The head of `for update in results`: the offset moves past the update.
ListenTake ==
    /\ listen_state = "poll"
    /\ batch # <<>>
    /\ offset' = IF Head(batch).update_id # None
                 THEN Unwrap(Head(batch).update_id) + 1
                 ELSE offset
    /\ current_update' = Some(Head(batch))
    /\ batch' = Tail(batch)
    /\ listen_state' = "handle"
    /\ UNCHANGED <<centralVars, configVars, clockVars, chatVars, webhooks,
                   allowed_users, pairing, auth_manager, persisted_users, sink,
                   outbox, sending, tenantVars, polls, sink_open>>

\* ListenHandle that goes on with the loop when tx.send fails.
ListenHandleIgnoresClosed(persist_ok, lock_now) ==
    LET update == Unwrap(current_update)
    IN  /\ listen_state = "handle"
        /\ listen_state' = "poll"
        /\ IF parse_update_message(update) # None
             THEN /\ sink' = IF sink_open
                             THEN Append(sink, Unwrap(parse_update_message(update)))
                             ELSE sink
                  /\ UNCHANGED <<centralVars, allowed_users, pairing,
                                 persisted_users, outbox>>
             ELSE /\ handle_unauthorized_message(update, persist_ok, lock_now)
                  /\ UNCHANGED sink
        /\ UNCHANGED <<configVars, clockVars, chatVars, webhooks, auth_manager,
                       offset, current_update, sending, tenantVars, batch, polls,
                       sink_open>>

\* The rest of the loop body: the update is parsed and forwarded, or handled
\* as unauthorized; a forward into a closed sink makes listen return Ok(()).
ListenHandle(persist_ok, lock_now) ==
    LET update == Unwrap(current_update)
    IN  /\ listen_state = "handle"
        /\ IF parse_update_message(update) # None
             THEN /\ IF sink_open
                       THEN /\ sink' = Append(sink, Unwrap(parse_update_message(update)))
                            /\ listen_state' = "poll"
                       ELSE /\ UNCHANGED sink
                            /\ listen_state' = "returned"
                  /\ UNCHANGED <<centralVars, allowed_users, pairing,
                                 persisted_users, outbox>>
             ELSE /\ handle_unauthorized_message(update, persist_ok, lock_now)
                  /\ UNCHANGED sink
                  /\ listen_state' = "poll"
        /\ UNCHANGED <<configVars, clockVars, chatVars, webhooks, auth_manager,
                       offset, current_update, sending, tenantVars, batch, polls,
                       sink_open>>

\* The orchestrator drops the receiving end of tx.
SinkClose ==
    /\ sink_open
    /\ sink_open' = FALSE
    /\ UNCHANGED <<centralVars, configVars, clockVars, chatVars, webhooks,
                   telegramVars, tenantVars, batch, polls, listen_state>>

(***************************************************************************)
(* Sending a reply (src/channels/telegram.rs): split_message_for_telegram  *)
(* and send_text_chunks.  A text is a sequence of runs [c, n]: the         *)
(* character c repeated n >= 1 times.  Lengths and positions are in bytes, *)
(* as str::len and the slices of the source are.                           *)
(***************************************************************************)
TELEGRAM_MAX_MESSAGE_LENGTH == 4096

\* The characters of the texts: a letter, the space, the newline and a letter
\* of two bytes in UTF-8; the two markers of send_text_chunks are kept whole.
Wide == "U+044F"
ContinuesMark == "(continues...)"
ContinuedMark == "(continued)"

\* char::len_utf8, and the byte length of a marker.
len_utf8(c) ==
    CASE c = Wide -> 2
      [] c = ContinuesMark -> 14
      [] c = ContinuedMark -> 11
      [] OTHER -> 1

Run(c, n) == [c |-> c, n |-> n]

RECURSIVE str_len(_)
\* str::len: the length in bytes.
str_len(s) ==
    IF s = <<>> THEN 0 ELSE s[1].n * len_utf8(s[1].c) + str_len(Tail(s))

RECURSIVE is_char_boundary(_, _)
\* str::is_char_boundary: byte index i does not fall inside a character.
is_char_boundary(s, i) ==
    IF i = 0 THEN TRUE
    ELSE IF s = <<>> THEN FALSE
    ELSE LET w == len_utf8(s[1].c)
             b == s[1].n * w
         IN  IF i <= b THEN i % w = 0 ELSE is_char_boundary(Tail(s), i - b)

RECURSIVE slice_to(_, _)
\* &s[..i] for a char boundary i <= s.len()
slice_to(s, i) ==
    IF i = 0 THEN <<>>
    ELSE LET w == len_utf8(s[1].c)
             b == s[1].n * w
         IN  IF i >= b THEN <<s[1]>> \o slice_to(Tail(s), i - b)
             ELSE <<Run(s[1].c, i \div w)>>

RECURSIVE slice_from(_, _)
\* &s[i..] for a char boundary i <= s.len()
slice_from(s, i) ==
    IF i = 0 THEN s
    ELSE LET w == len_utf8(s[1].c)
             b == s[1].n * w
         IN  IF i >= b THEN slice_from(Tail(s), i - b)
             ELSE <<Run(s[1].c, s[1].n - i \div w)>> \o Tail(s)

RECURSIVE rfind(_, _)
\* str::rfind(char): the byte index of the last occurrence.
rfind(s, ch) ==
    IF s = <<>> THEN None
    ELSE IF s[Len(s)].c = ch THEN Some(str_len(s) - len_utf8(ch))
    ELSE rfind(SubSeq(s, 1, Len(s) - 1), ch)

\* chunk_end of one round of the loop, for remaining longer than the limit.
chunk_end(remaining) ==
    LET search_area == slice_to(remaining, TELEGRAM_MAX_MESSAGE_LENGTH)
        newline == rfind(search_area, "\n")
        space == rfind(search_area, " ")
    IN  IF newline # None
        THEN IF Unwrap(newline) >= TELEGRAM_MAX_MESSAGE_LENGTH \div 2
             THEN Unwrap(newline) + 1
             ELSE (IF space # None THEN Unwrap(space)
                   ELSE TELEGRAM_MAX_MESSAGE_LENGTH) + 1
        ELSE IF space # None THEN Unwrap(space) + 1
        ELSE TELEGRAM_MAX_MESSAGE_LENGTH

\* What split_message_for_telegram comes to: its chunks, or a panic of the
\* calling task when a slice falls inside a character.
Chunks(chunks) == [panicked |-> FALSE, chunks |-> chunks]
Panic == [panicked |-> TRUE, chunks |-> <<>>]

RECURSIVE split_loop(_)
\* while !remaining.is_empty() { ... }
split_loop(remaining) ==
    IF remaining = <<>> THEN Chunks(<<>>)
    ELSE IF str_len(remaining) <= TELEGRAM_MAX_MESSAGE_LENGTH
    THEN Chunks(<<remaining>>)
    ELSE IF ~is_char_boundary(remaining, TELEGRAM_MAX_MESSAGE_LENGTH) THEN Panic
    ELSE IF ~is_char_boundary(remaining, chunk_end(remaining)) THEN Panic
    ELSE LET rest == split_loop(slice_from(remaining, chunk_end(remaining)))
         IN  IF rest.panicked THEN Panic
             ELSE Chunks(<<slice_to(remaining, chunk_end(remaining))>> \o rest.chunks)

split_message_for_telegram(message) ==
    IF str_len(message) <= TELEGRAM_MAX_MESSAGE_LENGTH
    THEN Chunks(<<message>>)
    ELSE split_loop(message)

\* The text of the sendMessage request for chunk index (from 0) of `count`.
chunk_text(chunk, index, count) ==
    IF count > 1
    THEN IF index = 0
         THEN chunk \o <<Run("\n", 2), Run(ContinuesMark, 1)>>
         ELSE IF index = count - 1
         THEN <<Run(ContinuedMark, 1), Run("\n", 2)>> \o chunk
         ELSE <<Run(ContinuedMark, 1), Run("\n", 2)>> \o chunk
                \o <<Run("\n", 2), Run(ContinuesMark, 1)>>
    ELSE chunk

\* send_text_chunks starts: the message is split, nothing is sent yet.
SendStart(message, chat_id) ==
    /\ sending = None
    /\ sending' = Some([message |-> message, recipient |-> chat_id,
                        split |-> split_message_for_telegram(message),
                        index |-> 0, result |-> "running"])
    /\ UNCHANGED <<centralVars, configVars, clockVars, chatVars, webhooks,
                   allowed_users, pairing, auth_manager, persisted_users, offset,
                   current_update, sink, outbox, tenantVars, pollVars>>

\* One round of `for (index, chunk) in chunks`: the sendMessage request for
\* the chunk is accepted, with Markdown or without, and the loop goes on; or
\* both requests fail and send_text_chunks bails out.
SendChunk(accepted) ==
    /\ sending # None
    /\ LET call == Unwrap(sending)
           chunks == call.split.chunks
           text == chunk_text(chunks[call.index + 1], call.index, Len(chunks))
       IN  /\ call.result = "running" /\ call.index < Len(chunks)
           /\ IF accepted
                THEN /\ outbox' = Append(outbox, SendMessage(text, call.recipient))
                     /\ sending' = Some([call EXCEPT
                            !.index = @ + 1,
                            !.result = IF call.index + 1 = Len(chunks)
                                       THEN "Ok" ELSE "running"])
                ELSE /\ sending' = Some([call EXCEPT !.result = "Err"])
                     /\ UNCHANGED outbox
    /\ UNCHANGED <<centralVars, configVars, clockVars, chatVars, webhooks,
                   allowed_users, pairing, auth_manager, persisted_users, offset,
                   current_update, sink, tenantVars, pollVars>>

(***************************************************************************)
(* Attachments (src/channels/telegram.rs).  An outgoing content is a       *)
(* sequence of tokens: the characters the parser looks for ("[", "]", ":", *)
(* " ") and words that hold none of them.  The contents of the model are   *)
(* shorter than TELEGRAM_MAX_MESSAGE_LENGTH and hold no tool-call tags.    *)
(***************************************************************************)
\* str::to_ascii_uppercase on the kind words of the model.
to_ascii_uppercase(w) ==
    CASE w = "image" -> "IMAGE" [] w = "video" -> "VIDEO" [] OTHER -> w

\* TelegramAttachmentKind::from_marker
from_marker(marker) ==
    LET t == trim(marker)
        w == IF Len(t) = 1 THEN to_ascii_uppercase(t[1]) ELSE ""
    IN  CASE w \in {"IMAGE", "PHOTO"} -> Some("Image")
          [] w \in {"DOCUMENT", "FILE"} -> Some("Document")
          [] w = "VIDEO" -> Some("Video")
          [] w = "AUDIO" -> Some("Audio")
          [] w = "VOICE" -> Some("Voice")
          [] OTHER -> None

\* str::find(char) in message[from..]: the index of the first occurrence,
\* 0 when there is none.
find_from(message, ch, from) ==
    IF \E i \in from..Len(message) : message[i] = ch
    THEN CHOOSE i \in from..Len(message) :
            message[i] = ch /\ \A j \in from..(i - 1) : message[j] # ch
    ELSE 0

TelegramAttachment(kind, target) == [kind |-> kind, target |-> target]

\* marker.split_once(':').and_then(...): the attachment a marker names.
parse_marker(marker) ==
    LET colon == find_from(marker, ":", 1)
        kind == from_marker(SubSeq(marker, 1, colon - 1))
        target == trim(SubSeq(marker, colon + 1, Len(marker)))
    IN  IF colon = 0 \/ kind = None \/ target = <<>> THEN None
        ELSE Some(TelegramAttachment(Unwrap(kind), target))

RECURSIVE parse_markers_from(_, _)
\* while cursor < message.len() { ... }
parse_markers_from(message, cursor) ==
    IF cursor > Len(message) THEN [cleaned |-> <<>>, attachments |-> <<>>]
    ELSE LET open == find_from(message, "[", cursor)
             close == find_from(message, "]", open)
             parsed == parse_marker(SubSeq(message, open + 1, close - 1))
             rest == parse_markers_from(message, close + 1)
         IN  IF open = 0 \/ close = 0
             THEN [cleaned |-> SubSeq(message, cursor, Len(message)),
                   attachments |-> <<>>]
             ELSE [cleaned |-> SubSeq(message, cursor, open - 1)
                               \o (IF parsed = None
                                   THEN SubSeq(message, open, close) ELSE <<>>)
                               \o rest.cleaned,
                   attachments |-> (IF parsed = None THEN <<>> ELSE <<Unwrap(parsed)>>)
                                   \o rest.attachments]

parse_attachment_markers(message) ==
    [cleaned |-> trim(parse_markers_from(message, 1).cleaned),
     attachments |-> parse_markers_from(message, 1).attachments]

\* strip_tool_call_tags on a content without tags: result.trim().
strip_tool_call_tags(message) == trim(message)

\* infer_attachment_kind_from_target on the path words of the model: the
\* extension is what follows the last dot of the candidate.
infer_attachment_kind_from_target(candidate) ==
    LET w == IF candidate = <<>> THEN "" ELSE candidate[Len(candidate)]
    IN  CASE w \in {"/tmp/chart.png", "/tmp/a.png"} -> Some("Image")
          [] w = "/tmp/v.mp4" -> Some("Video")
          [] w = "//example.com/a.pdf" -> Some("Document")
          [] OTHER -> None

\* is_http_url
is_http_url(target) ==
    /\ Len(target) >= 3
    /\ target[1] \in {"http", "https"} /\ target[2] = ":"
    /\ target[3] = "//example.com/a.pdf"

\* parse_path_only_attachment, `files` being the paths that exist.
parse_path_only_attachment(message, files) ==
    LET candidate == trim(message)
        kind == infer_attachment_kind_from_target(candidate)
    IN  IF candidate = <<>> \/ contains(candidate, " ") \/ kind = None THEN None
        ELSE IF ~is_http_url(candidate) /\ candidate \notin files THEN None
        ELSE Some(TelegramAttachment(Unwrap(kind), candidate))

\* The request that sends an attachment to a chat.
SendAttachment(attachment, chat_id) ==
    [kind |-> attachment.kind, target |-> attachment.target, recipient |-> chat_id]

\* The requests Channel::send makes for a content when each of them succeeds,
\* in the order it makes them.
send_requests_attachments_first(content, chat_id, files) ==
    LET parsed == parse_attachment_markers(strip_tool_call_tags(content))
        path_only == parse_path_only_attachment(strip_tool_call_tags(content), files)
    IN  IF parsed.attachments # <<>>
        THEN [i \in 1..Len(parsed.attachments) |->
                  SendAttachment(parsed.attachments[i], chat_id)]
             \o (IF parsed.cleaned # <<>>
                 THEN <<SendMessage(parsed.cleaned, chat_id)>> ELSE <<>>)
        ELSE IF path_only # None
        THEN <<SendAttachment(Unwrap(path_only), chat_id)>>
        ELSE <<SendMessage(strip_tool_call_tags(content), chat_id)>>

send_requests(content, chat_id, files) ==
    LET parsed == parse_attachment_markers(strip_tool_call_tags(content))
        path_only == parse_path_only_attachment(strip_tool_call_tags(content), files)
    IN  IF parsed.attachments # <<>>
        THEN (IF parsed.cleaned # <<>>
              THEN <<SendMessage(parsed.cleaned, chat_id)>> ELSE <<>>)
             \o [i \in 1..Len(parsed.attachments) |->
                    SendAttachment(parsed.attachments[i], chat_id)]
        ELSE IF path_only # None
        THEN <<SendAttachment(Unwrap(path_only), chat_id)>>
        ELSE <<SendMessage(strip_tool_call_tags(content), chat_id)>>

\* send_attachment refuses a local target that does not exist.
target_missing(request, files) ==
    /\ "target" \in DOMAIN request
    /\ ~is_http_url(request.target)
    /\ request.target \notin files

\* Channel::send: the requests are made in order and the first that fails
\* ends the call with its error (`?`); fail_at is the request the network
\* fails, 0 for none.
ChannelSend(message, files, fail_at) ==
    LET requests == send_requests(message.content, message.recipient, files)
        failing == {i \in 1..Len(requests) :
                        i = fail_at \/ target_missing(requests[i], files)}
        made == IF failing = {} THEN Len(requests)
                ELSE (CHOOSE i \in failing : \A j \in failing : i <= j) - 1
    IN  /\ Len(outbox) < MaxOutbox
        /\ outbox' = outbox \o SubSeq(requests, 1, made)
        /\ sending' = Some([message |-> message.content,
                            recipient |-> message.recipient,
                            split |-> Chunks(<<>>), index |-> made,
                            result |-> IF failing = {} THEN "Ok" ELSE "Err"])
        /\ UNCHANGED <<centralVars, configVars, clockVars, chatVars, webhooks,
                       allowed_users, pairing, auth_manager, persisted_users,
                       offset, current_update, sink, tenantVars, pollVars>>

(***************************************************************************)
(* The per-tenant stores (src/tenant/mod.rs).  The file system is the set  *)
(* of tenant directories and the set of brain.db files in them.            *)
(***************************************************************************)
\* TenantManager::new on an empty workspace: nothing cached, nothing on disk.
TenantManager_new ==
    /\ tenants = {}
    /\ tenant_dirs = {}
    /\ brain_dbs = {}
    /\ deleting = {}

\* tenant_exists: tenants/<user_id>/brain.db exists.
tenant_exists(user_id) == user_id \in brain_dbs

\* How far TenantDb::open gets: create_dir_all fails ("mkdir"),
\* Connection::open fails ("open"), init_schema fails ("schema"), or none does.
OpenErrs == {"none", "mkdir", "open", "schema"}

\* get_tenant: Ok(handle), from the cache or from TenantDb::open.
get_tenant_result(user_id, open_err) ==
    IF user_id \in tenants \/ open_err = "none"
    THEN Ok("get_tenant", user_id)
    ELSE Err("get_tenant", "Failed to open tenant DB")

\* get_tenant, under the lock of the cache: a cached store is returned as it
\* is; otherwise the directory and the file are created and the store is
\* cached, as far as TenantDb::open gets.
GetTenant(user_id, open_err) ==
    /\ IF user_id \in tenants
         THEN UNCHANGED <<tenants, tenant_dirs, brain_dbs>>
         ELSE /\ tenant_dirs' = IF open_err = "mkdir" THEN tenant_dirs
                                ELSE tenant_dirs \cup {user_id}
              /\ brain_dbs' = IF open_err \in {"mkdir", "open"} THEN brain_dbs
                              ELSE brain_dbs \cup {user_id}
              /\ tenants' = IF open_err = "none" THEN tenants \cup {user_id}
                            ELSE tenants
    /\ UNCHANGED <<centralVars, configVars, clockVars, chatVars, webhooks,
                   telegramVars, pollVars, deleting>>

\* delete_tenant, first block: the store is removed from the cache and the
\* lock is released.
DeleteTenantEvict(user_id) ==
    /\ user_id \notin deleting
    /\ tenants' = tenants \ {user_id}
    /\ deleting' = deleting \cup {user_id}
    /\ UNCHANGED <<centralVars, configVars, clockVars, chatVars, webhooks,
                   telegramVars, pollVars, tenant_dirs, brain_dbs>>

\* delete_tenant: Ok(()) unless remove_dir_all fails on an existing directory.
delete_tenant_result(user_id, remove_ok) ==
    IF user_id \in tenant_dirs /\ ~remove_ok
    THEN Err("delete_tenant", "Failed to delete tenant directory")
    ELSE Ok("delete_tenant", user_id)

\* delete_tenant, the rest: the directory, if there is one, is removed with
\* what is in it; a failing remove_dir_all leaves it.
DeleteTenantRemove(user_id, remove_ok) ==
    /\ user_id \in deleting
    /\ deleting' = deleting \ {user_id}
    /\ IF delete_tenant_result(user_id, remove_ok).ok
         THEN /\ tenant_dirs' = tenant_dirs \ {user_id}
              /\ brain_dbs' = brain_dbs \ {user_id}
         ELSE UNCHANGED <<tenant_dirs, brain_dbs>>
    /\ UNCHANGED <<centralVars, configVars, clockVars, chatVars, webhooks,
                   telegramVars, pollVars, tenants>>

(***************************************************************************)
(* Specifications.                                                         *)
(***************************************************************************)
EmptyTable == [x \in {} |-> x]

\* The state after construction: empty tables, the clock at 0.  api_keys and
\* meters are the configurations of AppState a specification covers.
Start(api_keys, meters) ==
    /\ users = EmptyTable
    /\ subscriptions = EmptyTable
    /\ token_transactions = EmptyBag
    /\ telegram_link_codes = EmptyTable
    /\ codes_issued = 0
    /\ now = 0
    /\ ticks = 0
    /\ trial_days = DefaultTrialDays
    /\ cryptomus_api_key \in api_keys
    /\ token_meter \in meters
    /\ webhooks = <<>>
    /\ agents = EmptyTable
    /\ memories = EmptyTable
    /\ chats = <<>>
    /\ micros = 0
    /\ TelegramChannel_new({}, FALSE)
    /\ TenantManager_new
    /\ listen_start

\* The user ids callers name: those of registered users and one of nobody.
CallerIds == {"u1", "u2", "nobody"}
MeterEmails == { <<"a", "@", "b", ".", "c">>, <<"x", "@", "y", ".", "z">> }
GoodPassword == <<"1", "2", "3", "4", "5", "6", "7", "8">>

\* The token meter under direct calls.
InitMeter == Start({Some("key")}, {TRUE})

NextMeter ==
    \/ \E e \in MeterEmails, db_err \in DbErrs : Register(e, GoodPassword, db_err)
    \/ \E u \in CallerIds, i \in {0, 50000}, db_err \in DbErrs :
            \E c \in calculate_cost("groq", "llama-3.3-70b", i, 50000) :
                RecordUsage(u, "groq", "llama-3.3-70b", i, 50000, c, db_err)
    \/ \E u \in CallerIds, db_err \in {"none", "first"} :
            ActivateSubscription(u, WebhookSubscriptionDays, db_err)
    \/ \E u \in CallerIds, db_err \in DbErrs :
            AddTokens(u, TOKEN_PACKAGES["100k"].tokens,
                      TOKEN_PACKAGES["100k"].price_cents, db_err)
    \/ Tick(DefaultTrialDays * HoursPerDay + 1)

SpecMeter == InitMeter /\ [][NextMeter]_vars

\* The auth service under direct calls.
TelegramIds == {"tg1", "tg2"}
TelegramNames == {None, Some("alice")}
CodeInputs == 0..MaxCodes

InitAuth == Start({Some("key")}, {TRUE})

NextAuth ==
    \/ \E e \in MeterEmails, db_err \in {"none", "first"} :
            Register(e, GoodPassword, db_err)
    \/ \E u \in CallerIds, db_err \in DbErrs : GenerateTelegramLink(u, db_err)
    \/ \E c \in CodeInputs, db_err \in DbErrs : ValidateTelegramCode(c, db_err)
    \/ \E u \in CallerIds, t \in TelegramIds, n \in TelegramNames,
          db_err \in {"none", "first"} : LinkTelegram(u, t, n, db_err)
    \/ Tick(LinkCodeHours + 1)

SpecAuth == InitAuth /\ [][NextAuth]_vars

\* Registration and login with the emails and passwords callers type.
InitAccount == Start({Some("key")}, {TRUE})

NextAccount ==
    \/ \E e \in RawEmails, p \in Passwords, db_err \in DbErrs \cup {"read"} :
            Register(e, p, db_err)
    \/ \E e \in RawEmails, p \in Passwords, db_err \in DbErrs : Login(e, p, db_err)
    \/ Tick(1)

SpecAccount == InitAccount /\ [][NextAccount]_vars

\* The chat endpoint with its agents, two registered users and the clock.
InitChat == Start({Some("key")}, {TRUE})

NextChat ==
    \/ \E e \in MeterEmails : Register(e, GoodPassword, "none")
    \/ \E u \in {"u1", "u2"}, db_err \in {"none", "first"} : CreateAgent(u, db_err)
    \/ \E u \in {"u1", "u2"}, a \in {"a1", "a2"}, db_err \in {"none", "first"} :
            ChatLookup(u, a, "hi", db_err)
    \/ \E i \in 1..MaxChats : ChatLoadHistory(i)
    \/ \E i \in 1..MaxChats, answer \in {None, Some("hello")} : ChatTurn(i, answer)
    \/ \E i \in 1..MaxChats, db_err \in {"none", "first"} : ChatStoreUser(i, db_err)
    \/ \E i \in 1..MaxChats, db_err \in {"none", "first"} : ChatStoreAssistant(i, db_err)
    \/ MicrosTick
    \/ Tick(DefaultTrialDays * HoursPerDay + 1)

SpecChat == InitChat /\ [][NextChat]_vars

\* The handlers that look an agent up for a caller: chat, and the Telegram
\* connection of an agent.
InitAgents == Start({Some("key")}, {TRUE})

NextAgents ==
    \/ \E e \in MeterEmails : Register(e, GoodPassword, "none")
    \/ \E u \in {"u1", "u2"} : CreateAgent(u, "none")
    \/ \E u \in {"u1", "u2"}, a \in {"a1", "a2"}, db_err \in DbErrs :
            ConnectTelegram(u, a, "bot-token", db_err)
    \/ \E u \in {"u1", "u2"}, a \in {"a1", "a2"} : ChatLookup(u, a, "hi", "none")
    \/ \E i \in 1..MaxChats : ChatLoadHistory(i)
    \/ \E i \in 1..MaxChats, answer \in {None, Some("hello")} : ChatTurn(i, answer)
    \/ \E i \in 1..MaxChats, db_err \in {"none", "first"} : ChatStoreUser(i, db_err)
    \/ \E i \in 1..MaxChats, db_err \in {"none", "first"} : ChatStoreAssistant(i, db_err)

SpecAgents == InitAgents /\ [][NextAgents]_vars

\* Two memories on one pool, bound to agents a1 and a2.
MemAgents == {"a1", "a2"}
MemKeys == {"k1", "k2"}
MemContents == {"x", "y"}
MemCategories == {"core", HistoryCategory}

InitMemory == Start({Some("key")}, {TRUE})

NextMemory ==
    \/ \E k \in MemKeys, c \in MemContents, cat \in MemCategories,
          embed_ok \in BOOLEAN :
            MemoryStore("a1", k, c, cat, embed_ok)
    \/ \E c \in MemContents : MemoryStore("a2", "k1", c, "core", TRUE)
    \/ \E a \in MemAgents, k \in MemKeys : MemoryForget(a, k)
    \/ MicrosTick

SpecMemory == InitMemory /\ [][NextMemory]_vars


\* The payment webhook, with and without a configured API key and meter.
InitPay == Start({None, Some("key")}, BOOLEAN)

NextPay ==
    \/ \E e \in MeterEmails : Register(e, GoodPassword, "none")
    \/ \E payload \in Payloads, db_err \in DbErrs : WebhookReceive(payload, db_err)
    \/ \E i \in 1..MaxDeliveries, db_err \in {"none", "first"} :
            WebhookActivate(i, db_err)
    \/ Tick(WebhookSubscriptionDays * HoursPerDay)

SpecPay == InitPay /\ [][NextPay]_vars

\* check_access on subscription rows and clock values drawn from the cases of
\* its decision: each status, usage below, at and above the limit, and times
\* before, at and after the end of the trial window and of the paid period.
TrialEnd == DefaultTrialDays * HoursPerDay
AccessTimes == {0, TrialEnd, TrialEnd + 1}
AccessRows ==
    { [status |-> "trial", trial_started_at |-> Some(0), trial_tokens_used |-> used,
       trial_tokens_limit |-> SchemaTrialTokenLimit, paid_until |-> None,
       total_tokens_purchased |-> 0] :
        used \in {0, SchemaTrialTokenLimit - 1, SchemaTrialTokenLimit,
                  SchemaTrialTokenLimit + 1} }
    \cup
    { [status |-> st, trial_started_at |-> Some(0), trial_tokens_used |-> used,
       trial_tokens_limit |-> SchemaTrialTokenLimit, paid_until |-> Some(paid),
       total_tokens_purchased |-> 0] :
        st \in {"active", "expired", "cancelled"},
        used \in {0, SchemaTrialTokenLimit},
        paid \in {TrialEnd, TrialEnd + 1} }
    \cup
    \* the columns trial_started_at and paid_until are nullable
    { [status |-> st, trial_started_at |-> None, trial_tokens_used |-> used,
       trial_tokens_limit |-> SchemaTrialTokenLimit, paid_until |-> None,
       total_tokens_purchased |-> 0] :
        st \in {"trial", "active"}, used \in {0, SchemaTrialTokenLimit} }

InitAccess ==
    /\ users = ("u1" :> [email |-> <<"a", "@", "b", ".", "c">>,
                         password_hash |-> hash_password(GoodPassword),
                         telegram_id |-> None, telegram_username |-> None,
                         last_login |-> None])
    /\ subscriptions \in {("u1" :> row) : row \in AccessRows}
    /\ token_transactions = EmptyBag
    /\ telegram_link_codes = EmptyTable
    /\ codes_issued = 0
    /\ now \in AccessTimes
    /\ ticks = 0
    /\ trial_days = DefaultTrialDays
    /\ cryptomus_api_key = Some("key")
    /\ token_meter = TRUE
    /\ webhooks = <<>>
    /\ agents = EmptyTable
    /\ memories = EmptyTable
    /\ chats = <<>>
    /\ micros = 0
    /\ TelegramChannel_new({}, FALSE)
    /\ TenantManager_new
    /\ listen_start

NextAccess ==
    \/ \E c \in calculate_cost("groq", "llama-3.3-70b", 0, 50000) :
            RecordUsage("u1", "groq", "llama-3.3-70b", 0, 50000, c, "none")
    \/ ActivateSubscription("u1", WebhookSubscriptionDays, "none")
    \/ Tick(1)

SpecAccess == InitAccess /\ [][NextAccess]_vars

\* The Telegram senders and messages of the specifications below.
Alice == <<"a", "l", "i", "c", "e">>
Bob == <<"b", "o", "b">>
Id42 == <<"4", "2">>
Id7 == <<"7">>
TgSenders ==
    { [username |-> Some(Alice), user_id |-> Some(Id42)],
      [username |-> None, user_id |-> Some(Id7)],
      [username |-> Some(Bob), user_id |-> None],
      [username |-> None, user_id |-> None] }

Hi == << <<"hi">> >>
BindText(code) == << TELEGRAM_BIND_COMMAND, <<code>> >>
StartText(code) == << TELEGRAM_START_COMMAND, <<code>> >>
StartAtText(code) == << <<"/start", "@", "bot">>, <<code>> >>
PlainStart == << TELEGRAM_START_COMMAND >>

TgMessage(sender, text, chat_id) ==
    [username |-> sender.username, user_id |-> sender.user_id,
     text |-> text, chat_id |-> chat_id]

\* The configured allowlists: none, a user name written three ways, everyone,
\* and the user name "unknown".
AllowConfigs ==
    { {}, {Alice}, {<<" ", "@", "a", "l", "i", "c", "e">>}, {Star}, {Unknown} }

PairingTexts ==
    { Some(Hi), Some(BindText(PairingCode)), Some(BindText("wrong")),
      Some(PlainStart) }

\* Text messages of every sender; a link command, a message that is no text
\* and a message without a chat.
PairingMessages ==
    { TgMessage(s, t, Some("chat1")) : s \in TgSenders, t \in PairingTexts }
    \cup { TgMessage([username |-> Some(Alice), user_id |-> Some(Id42)],
                     t, Some("chat1")) : t \in {Some(StartText(1)), None} }
    \cup { TgMessage([username |-> Some(Alice), user_id |-> Some(Id42)],
                     Some(Hi), None) }

\* The channel without an auth manager: allowlist and pairing.
InitTelegram ==
    /\ users = EmptyTable
    /\ subscriptions = EmptyTable
    /\ token_transactions = EmptyBag
    /\ telegram_link_codes = EmptyTable
    /\ codes_issued = 0
    /\ now = 0
    /\ ticks = 0
    /\ trial_days = DefaultTrialDays
    /\ cryptomus_api_key = Some("key")
    /\ token_meter = TRUE
    /\ webhooks = <<>>
    /\ agents = EmptyTable
    /\ memories = EmptyTable
    /\ chats = <<>>
    /\ micros = 0
    /\ \E configured \in AllowConfigs : TelegramChannel_new(configured, FALSE)
    /\ TenantManager_new
    /\ listen_start

NextTelegram ==
    \/ \E m \in PairingMessages, persist_ok \in BOOLEAN, lock_now \in BOOLEAN :
            ListenUpdate(m, persist_ok, lock_now)
    \/ PairingUnlock

SpecTelegram == InitTelegram /\ [][NextTelegram]_vars

\* The long-poll loop with the allowlist {alice}: batches of at most two
\* updates, from alice and from a stranger, with and without an update_id.
PollUpdate(id, sender) ==
    [update_id |-> id, message_id |-> 1, text |-> Some(Hi),
     username |-> sender.username, user_id |-> sender.user_id,
     chat_id |-> Some("chat1")]

PollSenders ==
    { [username |-> Some(Alice), user_id |-> Some(Id42)],
      [username |-> Some(Bob), user_id |-> None] }

PollUpdates ==
    { PollUpdate(Some(n), s) : n \in {4, 7}, s \in PollSenders }
    \cup { PollUpdate(None, [username |-> Some(Alice), user_id |-> Some(Id42)]) }

PollBatches ==
    { <<>> } \cup { <<u>> : u \in PollUpdates }
    \cup { <<u, v>> : u \in PollUpdates, v \in PollUpdates }

InitPoll == InitTelegram /\ persisted_users = {Alice}

NextPoll ==
    \/ \E outcome \in PollOutcomes, results \in PollBatches :
            ListenPoll(outcome, results)
    \/ ListenTake
    \/ \E persist_ok \in BOOLEAN, lock_now \in BOOLEAN :
            ListenHandle(persist_ok, lock_now)
    \/ SinkClose

SpecPoll == InitPoll /\ [][NextPoll]_vars

\* The channel with an auth manager: /start <code> linking.  The database
\* file outlives the process: two users are registered, and the first may have
\* been linked to Telegram id 42 by an earlier run whose allowlist entry did
\* not reach config.toml (persist_allowed_identity failed, its error is
\* dropped at line 761).
LinkSenders ==
    { [username |-> Some(Alice), user_id |-> Some(Id42)],
      [username |-> None, user_id |-> Some(Id7)] }

LinkMessages ==
    { TgMessage([username |-> Some(Alice), user_id |-> Some(Id42)],
                Some(StartText(c)), Some("chat1")) : c \in CodeInputs }
    \cup { TgMessage(s, Some(Hi), Some("chat1")) : s \in LinkSenders }
    \cup { TgMessage([username |-> None, user_id |-> Some(Id7)],
                     Some(StartAtText(1)), Some("chat1")) }

RegisteredUser(email, telegram_id) ==
    [NewUser(email, GoodPassword) EXCEPT !.telegram_id = telegram_id]

InitLink ==
    /\ \E linked \in {None, Some(Id42)} :
            users = ("u1" :> RegisteredUser(<<"a", "@", "b", ".", "c">>, linked))
                    @@ ("u2" :> RegisteredUser(<<"x", "@", "y", ".", "z">>, None))
    /\ token_transactions = EmptyBag
    /\ telegram_link_codes = EmptyTable
    /\ codes_issued = 0
    /\ now = 0
    /\ subscriptions = [u \in {"u1", "u2"} |-> NewSubscription]
    /\ ticks = 0
    /\ trial_days = DefaultTrialDays
    /\ cryptomus_api_key = Some("key")
    /\ token_meter = TRUE
    /\ webhooks = <<>>
    /\ agents = EmptyTable
    /\ memories = EmptyTable
    /\ chats = <<>>
    /\ micros = 0
    /\ TelegramChannel_new({}, TRUE)
    /\ TenantManager_new
    /\ listen_start

NextLink ==
    \/ \E u \in {"u1", "u2"} : GenerateTelegramLink(u, "none")
    \/ Tick(LinkCodeHours + 1)
    \/ \E m \in LinkMessages : ListenUpdate(m, TRUE, FALSE)

SpecLink == InitLink /\ [][NextLink]_vars

\* The channel with an auth manager and an allowlist that admits alice, or
\* everyone, or no one yet; link codes are issued to u1 and u2 and senders
\* write /start <code>, /bind <code> and ordinary text.
AdmitConfigs == { {}, {Alice}, {Star} }
AdmitSenders ==
    { [username |-> Some(Alice), user_id |-> Some(Id42)],
      [username |-> Some(Bob), user_id |-> Some(Id7)] }
AdmitTexts ==
    { Some(StartText(1)), Some(StartAtText(2)), Some(BindText(PairingCode)),
      Some(Hi) }
AdmitMessages ==
    { TgMessage(s, t, Some("chat1")) : s \in AdmitSenders, t \in AdmitTexts }

InitAdmit ==
    /\ users = ("u1" :> RegisteredUser(<<"a", "@", "b", ".", "c">>, None))
            @@ ("u2" :> RegisteredUser(<<"x", "@", "y", ".", "z">>, None))
    /\ token_transactions = EmptyBag
    /\ telegram_link_codes = EmptyTable
    /\ codes_issued = 0
    /\ now = 0
    /\ subscriptions = [u \in {"u1", "u2"} |-> NewSubscription]
    /\ ticks = 0
    /\ trial_days = DefaultTrialDays
    /\ cryptomus_api_key = Some("key")
    /\ token_meter = TRUE
    /\ webhooks = <<>>
    /\ agents = EmptyTable
    /\ memories = EmptyTable
    /\ chats = <<>>
    /\ micros = 0
    /\ \E configured \in AdmitConfigs : TelegramChannel_new(configured, TRUE)
    /\ TenantManager_new
    /\ listen_start

NextAdmit ==
    \/ \E u \in {"u1", "u2"} : GenerateTelegramLink(u, "none")
    \/ \E m \in AdmitMessages : ListenUpdate(m, TRUE, FALSE)

SpecAdmit == InitAdmit /\ [][NextAdmit]_vars

\* The payment webhook for users whose trial budget is used up or untouched:
\* u1 and u2 are registered, the trial of u1 has used nothing or its whole
\* limit.
ExhaustedPayloads ==
    { Signed(PaidU1, "key"),
      Signed(Payload("pay2", Order("u2", "100k"), "paid_over", "5.00"), "key"),
      Signed(Payload("pay3", Order("u1", "100k"), "process", "5.00"), "key"),
      \* signed for the package 100k, then altered: another package, another
      \* user, a required field removed
      [Signed(PaidU1, "key") EXCEPT !.order_id = Order("u1", "5m")],
      [Signed(PaidU1, "key") EXCEPT !.order_id = Order("u2", "100k")],
      [Signed(PaidU1, "key") EXCEPT !.parses = FALSE] }

InitExhausted ==
    /\ users = ("u1" :> RegisteredUser(<<"a", "@", "b", ".", "c">>, None))
             @@ ("u2" :> RegisteredUser(<<"x", "@", "y", ".", "z">>, None))
    /\ now = 0
    /\ \E used \in {0, SchemaTrialTokenLimit} :
          subscriptions = ("u1" :> [NewSubscription EXCEPT !.trial_tokens_used = used])
                       @@ ("u2" :> NewSubscription)
    /\ token_transactions = EmptyBag
    /\ telegram_link_codes = EmptyTable
    /\ codes_issued = 0
    /\ ticks = 0
    /\ trial_days = DefaultTrialDays
    /\ cryptomus_api_key = Some("key")
    /\ token_meter = TRUE
    /\ webhooks = <<>>
    /\ agents = EmptyTable
    /\ memories = EmptyTable
    /\ chats = <<>>
    /\ micros = 0
    /\ TelegramChannel_new({}, FALSE)
    /\ TenantManager_new
    /\ listen_start

NextExhausted ==
    \/ \E payload \in ExhaustedPayloads, db_err \in DbErrs :
            WebhookReceive(payload, db_err)
    \/ \E i \in 1..MaxDeliveries, db_err \in {"none", "first"} :
            WebhookActivate(i, db_err)
    \/ Tick(1)

SpecExhausted == InitExhausted /\ [][NextExhausted]_vars

\* One owner and one agent, and turns that carry their number in the message
\* and in the answer.
TurnMessage(i) == <<"m", i>>
TurnAnswer(i) == <<"r", i>>

InitHistory ==
    /\ users = ("u1" :> RegisteredUser(<<"a", "@", "b", ".", "c">>, None))
    /\ now = 0
    /\ subscriptions = ("u1" :> NewSubscription)
    /\ token_transactions = EmptyBag
    /\ telegram_link_codes = EmptyTable
    /\ codes_issued = 0
    /\ ticks = 0
    /\ trial_days = DefaultTrialDays
    /\ cryptomus_api_key = Some("key")
    /\ token_meter = TRUE
    /\ webhooks = <<>>
    /\ agents = ("a1" :> [user_id |-> "u1", telegram |-> None])
    /\ memories = EmptyTable
    /\ chats = <<>>
    /\ micros = 0
    /\ TelegramChannel_new({}, FALSE)
    /\ TenantManager_new
    /\ listen_start

\* The steps of the turns in flight, and the clock.
TurnSteps(db_errs) ==
    \/ \E i \in 1..MaxTurns : ChatLoadHistory(i)
    \/ \E i \in 1..MaxTurns :
            \E answer \in {None, Some(TurnAnswer(i))} : ChatTurn(i, answer)
    \/ \E i \in 1..MaxTurns, db_err \in db_errs : ChatStoreUser(i, db_err)
    \/ \E i \in 1..MaxTurns, db_err \in db_errs : ChatStoreAssistant(i, db_err)
    \/ micros_advance(MaxStamp)

\* A client that serializes: it sends the next message after the reply to
\* the one before, and the round trip takes more than a microsecond.
NextHistory ==
    \/ /\ Len(chats) < MaxTurns
       /\ \A i \in 1..Len(chats) : chats[i].pc = "done"
       /\ \A k \in DOMAIN memories : k[2][2] < micros
       /\ chat_request("u1", "a1", TurnMessage(Len(chats) + 1), "none")
    \/ TurnSteps({"none", "first"})

SpecHistory == InitHistory /\ [][NextHistory]_vars

\* A client that sends messages without waiting for replies; the store
\* answers every statement.
NextTurns ==
    \/ /\ Len(chats) < MaxTurns
       /\ chat_request("u1", "a1", TurnMessage(Len(chats) + 1), "none")
    \/ TurnSteps({"none"})

SpecTurns == InitHistory /\ [][NextTurns]_vars

\* Replies sent through the channel: texts of up to three runs of letters,
\* spaces, newlines and two-byte letters, of lengths around the limit of
\* 4096 and its half.
RunLengths == {1, 2047, 2048, 4095, 4096, 5000}
RunChars == {"a", " ", "\n", Wide}
Runs == {Run(c, n) : c \in RunChars, n \in RunLengths}
Replies ==
    {<<>>} \cup {<<r>> : r \in Runs} \cup {<<r, q>> : r, q \in Runs}
    \cup {<<Run("a", n), r, q>> : n \in {1, 2048}, r, q \in Runs}

InitSend == Start({Some("key")}, {TRUE})

NextSend ==
    \/ \E message \in Replies : SendStart(message, "chat1")
    \/ \E accepted \in BOOLEAN : SendChunk(accepted)

SpecSend == InitSend /\ [][NextSend]_vars

\* Contents with attachment markers: the two examples of the specification
\* and of the tests, markers that do not parse, a marker behind an unclosed
\* bracket, a marker alone, plain text and a bare path.
SeeChart == <<"See", " ", "chart", " ", "[", "IMAGE", ":", "/tmp/chart.png", "]">>
HereAreFiles ==
    <<"Here", " ", "are", " ", "files", " ", "[", "IMAGE", ":", "/tmp/a.png", "]",
      " ", "and", " ",
      "[", "DOCUMENT", ":", "https", ":", "//example.com/a.pdf", "]">>
AttachContents ==
    { SeeChart, HereAreFiles,
      <<"Report", " ", "[", "UNKNOWN", ":", "/tmp/a.bin", "]">>,
      <<"[", "x", " ", "[", "IMAGE", ":", "/tmp/a.png", "]">>,
      <<"[", "IMAGE", ":", "/tmp/a.png", "]">>,
      <<"a", " ", "[", " ", "video", " ", ":", " ", "/tmp/v.mp4", " ", "]", " ",
        "[", "IMAGE", ":", " ", "]", " ", "b">>,
      <<"a", "]", " ", "[", "PHOTO", ":", "/tmp/a.png", "]", "[", "VOICE", ":", "x">>,
      <<"hi", " ", "there">>,
      <<" ", "/tmp/chart.png">> }
AttachFiles == { <<"/tmp/chart.png">>, <<"/tmp/a.png">>, <<"/tmp/v.mp4">> }

InitAttach == Start({Some("key")}, {TRUE})

NextAttach ==
    \E content \in AttachContents, files \in {{}, AttachFiles}, fail_at \in 0..3 :
        ChannelSend(SendMessage(content, "chat1"), files, fail_at)

SpecAttach == InitAttach /\ [][NextAttach]_vars

\* The tenant manager shared by the workers of three users.
TenantIds == {"u1", "u2", "u3"}

InitTenant == Start({Some("key")}, {TRUE})

NextTenant ==
    \/ \E u \in TenantIds, open_err \in OpenErrs : GetTenant(u, open_err)
    \/ \E u \in TenantIds : DeleteTenantEvict(u)
    \/ \E u \in TenantIds, remove_ok \in BOOLEAN : DeleteTenantRemove(u, remove_ok)

SpecTenant == InitTenant /\ [][NextTenant]_vars

\* The token meter pricing calls of several providers, models and sizes.
CostCalls ==
    { <<"anthropic", "claude-3.5-sonnet", 1000000, 1000000>>,
      <<"anthropic", "claude-3-opus", 1000, 1000>>,
      <<"groq", "llama-3.3-70b-versatile", 1000, 500>>,
      <<"groq:eu", "llama", 1000, 500>>,
      <<"deepseek", "v3", 100000, 100000>>,
      <<"openrouter", "kimi-k2.5", 1000, 9000>>,
      <<"openai", "gpt-4o", 2000, 0>>,
      <<"mistral", "large", 100000, 50000>>,
      <<"mistral", "large", 145000, 0>> }

InitCost == InitExhausted /\ subscriptions["u1"].trial_tokens_used = 0

NextCost ==
    \E call \in CostCalls :
        \E c \in calculate_cost(call[1], call[2], call[3], call[4]) :
            \E db_err \in DbErrs :
                RecordUsage("u1", call[1], call[2], call[3], call[4], c, db_err)

SpecCost == InitCost /\ [][NextCost]_vars

(***************************************************************************)
(* Claims about the token meter.                                           *)
(***************************************************************************)
HasSubscription(u) == u \in DOMAIN subscriptions

TrialExhaustedRow(u) ==
    /\ HasSubscription(u)
    /\ subscriptions[u].status = "trial"
    /\ subscriptions[u].trial_tokens_used >= subscriptions[u].trial_tokens_limit

\* C5: once a trial user's trial_tokens_used has reached trial_tokens_limit,
\* check_access answers TrialExhausted after every later step for as long as
\* the status stays trial (also once the trial window has elapsed); and in the
\* state right after activate_subscription(u, d) with d > 0 has updated the
\* row of u, check_access(u) answers Allowed.
C5_AccessGateMonotone ==
    [][\A u \in CallerIds :
         /\ (TrialExhaustedRow(u) /\ subscriptions'[u].status = "trial")
                => check_access(u)' = "TrialExhausted"
         /\ (HasSubscription(u)
               /\ ActivateSubscription(u, WebhookSubscriptionDays, "none"))
                => check_access(u)' = "Allowed"]_vars

\* C5 witness: a trial user at the limit after usage was recorded, the trial
\* window over as well.
C5_Witness ==
    \E u \in CallerIds :
        /\ TrialExhaustedRow(u)
        /\ now > Unwrap(subscriptions[u].trial_started_at) + trial_days * HoursPerDay
        /\ \E r \in BagToSet(token_transactions) : r.user_id = u /\ r.amount < 0
        /\ check_access(u) = "TrialExhausted"

\* C6: a successful record_usage(u, .., a, b, ..) for a user with a
\* subscription row raises that row's trial_tokens_used by exactly a + b,
\* inserts exactly one transaction row, of amount -(a + b), and leaves every
\* other subscription row alone; no other step changes trial_tokens_used;
\* and get_trial_remaining is max(0, limit - used), never negative.
C6_UsageAccumulation ==
    [][\A u \in CallerIds :
         /\ \A a \in {0, 50000} :
              (HasSubscription(u)
                /\ RecordUsage(u, "groq", "llama-3.3-70b", a, 50000, 0, "none"))
              => /\ subscriptions'[u].trial_tokens_used =
                        subscriptions[u].trial_tokens_used + a + 50000
                 /\ \A v \in DOMAIN subscriptions \ {u} :
                        subscriptions'[v] = subscriptions[v]
                 /\ BagCardinality(token_transactions') =
                        BagCardinality(token_transactions) + 1
                 /\ \E r \in BagToSet(token_transactions') :
                        /\ r.user_id = u /\ r.amount = -(a + 50000)
                        /\ CopiesIn(r, token_transactions') =
                              CopiesIn(r, token_transactions) + 1
                 /\ get_trial_remaining(u)'.val =
                        Max(0, subscriptions[u].trial_tokens_limit
                                 - (subscriptions[u].trial_tokens_used + a + 50000))
         /\ (HasSubscription(u)
               /\ subscriptions'[u].trial_tokens_used # subscriptions[u].trial_tokens_used)
              => \E a \in {0, 50000} :
                    RecordUsage(u, "groq", "llama-3.3-70b", a, 50000, 0, "none")
         /\ HasSubscription(u) => get_trial_remaining(u).val >= 0]_vars

\* C6 witness: two usages recorded for one user have taken it past its limit.
C6_Witness ==
    \E u \in CallerIds :
        /\ HasSubscription(u)
        /\ subscriptions[u].trial_tokens_used = 150000
        /\ get_trial_remaining(u) = Ok("get_trial_remaining", 0)
        /\ \E r1, r2 \in BagToSet(token_transactions) :
              /\ r1.user_id = u /\ r1.amount = -50000
              /\ r2.user_id = u /\ r2.amount = -100000

\* C4: check_access(user) follows the decision table on every subscription row
\* and clock value, with both expiry tests strict: no subscription row gives
\* UserNotFound; active gives SubscriptionRequired when paid_until is set and
\* now is later than it, and Allowed otherwise; trial gives TrialExhausted
\* when trial_tokens_used >= trial_tokens_limit (tested first), else
\* TrialExpired when trial_started_at is set and now is later than
\* trial_started_at + trial_days, else Allowed; any other status gives
\* SubscriptionRequired.
AccessTableStrict(u) ==
    IF ~HasSubscription(u) THEN "UserNotFound"
    ELSE LET sub == subscriptions[u] IN
         IF sub.status = "active"
         THEN IF sub.paid_until # None /\ Unwrap(sub.paid_until) < now
              THEN "SubscriptionRequired" ELSE "Allowed"
         ELSE IF sub.status = "trial"
         THEN IF sub.trial_tokens_used >= sub.trial_tokens_limit
              THEN "TrialExhausted"
              ELSE IF /\ sub.trial_started_at # None
                      /\ Unwrap(sub.trial_started_at) + trial_days * HoursPerDay < now
              THEN "TrialExpired" ELSE "Allowed"
         ELSE "SubscriptionRequired"

C4_AccessDecisionTable ==
    \A u \in CallerIds : check_access(u) = AccessTableStrict(u)

\* C4 witness: usage has been recorded for a trial user who is over the
\* limit and past the trial window, and is answered TrialExhausted.
C4_Witness ==
    /\ token_transactions # EmptyBag
    /\ subscriptions["u1"].status = "trial"
    /\ subscriptions["u1"].trial_tokens_used > subscriptions["u1"].trial_tokens_limit
    /\ now > TrialEnd
    /\ check_access("u1") = "TrialExhausted"

\* C4 as stated, with the expiry tests inclusive: active gives
\* SubscriptionRequired when paid_until <= now, trial gives TrialExpired when
\* trial_started_at + trial_days <= now.
AccessTableInclusive(u) ==
    IF ~HasSubscription(u) THEN "UserNotFound"
    ELSE LET sub == subscriptions[u] IN
         IF sub.status = "active"
         THEN IF sub.paid_until # None /\ Unwrap(sub.paid_until) <= now
              THEN "SubscriptionRequired" ELSE "Allowed"
         ELSE IF sub.status = "trial"
         THEN IF sub.trial_tokens_used >= sub.trial_tokens_limit
              THEN "TrialExhausted"
              ELSE IF /\ sub.trial_started_at # None
                      /\ Unwrap(sub.trial_started_at) + trial_days * HoursPerDay <= now
              THEN "TrialExpired" ELSE "Allowed"
         ELSE "SubscriptionRequired"

C4_AsStated ==
    \A u \in CallerIds : check_access(u) = AccessTableInclusive(u)

(***************************************************************************)
(* Claims about the payment webhook.                                       *)
(***************************************************************************)
\* The deliveries the handler has credited that carry a payment uuid.
CreditedDeliveries(uuid) ==
    {i \in 1..Len(webhooks) : webhooks[i].payload.uuid = uuid}

\* C2: of any number of deliveries of paid webhooks carrying one payment
\* uuid, at most one is credited (one add_tokens: one purchase row, one rise
\* of total_tokens_purchased).
C2_CreditedOncePerUuid ==
    \A uuid \in {"pay1", "pay2"} : Cardinality(CreditedDeliveries(uuid)) <= 1

\* C3: the handler calls add_tokens or activate_subscription only for a
\* payload whose status is paid or paid_over and whose sign is present and
\* verifies against the configured API key.
C3_CreditOnlyVerifiedPaid ==
    \A i \in 1..Len(webhooks) :
        LET payload == webhooks[i].payload
        IN  /\ is_successful(payload.status)
            /\ cryptomus_api_key # None
            /\ payload.sign # None
            /\ verify_cryptomus_signature(payload, Unwrap(payload.sign),
                                          Unwrap(cryptomus_api_key))

(***************************************************************************)
(* Claims about the chat handler.                                          *)
(***************************************************************************)
\* The usage rows record_usage has written for a user.
UsageBag(u) ==
    [row \in {r \in BagToSet(token_transactions) :
                r.user_id = u /\ r.amount < 0} |->
        CopiesIn(row, token_transactions)]

\* The turns of a user whose language-model call has succeeded and which have
\* been answered.
AnsweredTurns(u) ==
    {i \in 1..Len(chats) :
        chats[i].user_id = u /\ chats[i].pc = "done" /\ chats[i].status = 200}

\* C1: in every chat turn the language model is called only while
\* check_access(user) is Allowed, and every turn whose call succeeded has
\* exactly one record_usage row.
C1_ChatGatedAndMetered ==
    /\ [][\A i \in 1..Len(chats) :
            (chats[i].pc = "turn" /\ chats'[i].pc # "turn")
            => check_access(chats[i].user_id) = "Allowed"]_vars
    /\ [](\A u \in {"u1", "u2"} :
            BagCardinality(UsageBag(u)) = Cardinality(AnsweredTurns(u)))

(***************************************************************************)
(* Claims about the auth service.                                          *)
(***************************************************************************)
\* C7: every user row has exactly one subscription row in every reachable
\* state, also when a register call fails between its two inserts; and in the
\* state right after a successful register the new user's subscription is
\* trial with trial_tokens_used 0 and trial_tokens_limit 100000.
C7_UserHasSubscription ==
    /\ [](\A u \in DOMAIN users : HasSubscription(u))
    /\ [][\A e \in MeterEmails, p \in {GoodPassword} :
            (register_result(e, p, "none").ok /\ Register(e, p, "none"))
            => LET sub == subscriptions'[register_result(e, p, "none").val]
               IN  /\ sub.status = "trial"
                   /\ sub.trial_tokens_used = 0
                   /\ sub.trial_tokens_limit = 100000]_vars

\* Who holds a Telegram id.
BoundTo(t) == {u \in DOMAIN users : users[u].telegram_id = Some(t)}

\* C8: no telegram_id is bound to two users; link_telegram(u2, t) returns the
\* conflict error and changes no row when t is bound to another user; and
\* link_telegram(u1, t) repeated by the user who holds t succeeds and leaves t
\* bound to u1 alone.
C8_TelegramUniqueness ==
    /\ [](\A t \in TelegramIds : Cardinality(BoundTo(t)) <= 1)
    /\ [][\A u \in CallerIds, t \in TelegramIds, n \in TelegramNames :
            /\ (BoundTo(t) \ {u} # {})
                 => /\ ~link_telegram_result(u, t, n, "none").ok
                    /\ link_telegram_result(u, t, n, "none").val =
                          "This Telegram account is already linked to another user"
                    /\ LinkTelegram(u, t, n, "none") => UNCHANGED users
            /\ (BoundTo(t) = {u} /\ LinkTelegram(u, t, n, "none"))
                 => /\ link_telegram_result(u, t, n, "none").ok
                    /\ BoundTo(t)' = {u}]_vars

\* C8 witness: one user holds a Telegram id and has linked it again under
\* another name while a second user, who holds another id, exists.
C8_Witness ==
    /\ BoundTo("tg1") = {"u1"}
    /\ BoundTo("tg2") = {"u2"}
    /\ users["u1"].telegram_username = Some("alice")
    /\ users["u2"].telegram_username = None

\* A code that was issued and is no longer in the table.
Dead(c) == c \in 1..codes_issued /\ c \notin DOMAIN telegram_link_codes

\* C9: a successful validate_telegram_code(c) removes c, and a code that was
\* issued and is gone never comes back, so every later
\* validate_telegram_code(c) fails; a validation is one step under the
\* connection mutex, so of two validations of c the second finds c gone.
C9_SingleUseCode ==
    [][\A c \in CodeInputs :
         /\ (validate_telegram_code_result(c, "none").ok
               /\ ValidateTelegramCode(c, "none")) => Dead(c)'
         /\ Dead(c) => (Dead(c)' /\ ~validate_telegram_code_result(c, "none")'.ok)]_vars

\* C9 witness: a code was issued and validated while still valid, and a newer
\* code has been issued since.
C9_Witness ==
    /\ codes_issued >= 2
    /\ Dead(1)
    /\ now <= LinkCodeHours
    /\ DOMAIN telegram_link_codes # {}

\* C10: telegram_link_codes holds at most one code per user, and right after
\* generate_telegram_link(u) has succeeded the only code of u is the new one.
C10_OneCodePerUser ==
    /\ [](\A c1, c2 \in DOMAIN telegram_link_codes :
            telegram_link_codes[c1].user_id = telegram_link_codes[c2].user_id
            => c1 = c2)
    /\ [][\A u \in CallerIds :
            (generate_telegram_link_result(u, "none").ok
              /\ GenerateTelegramLink(u, "none"))
            => /\ CodesOf(u)' = {NextCode}
               /\ \A c \in 1..codes_issued :
                    ~validate_telegram_code_result(c, "none")'.ok
                    \/ telegram_link_codes'[c].user_id # u]_vars

\* C10 witness: a user was issued a second code and holds only that one.
C10_Witness ==
    /\ codes_issued = 2
    /\ CodesOf("u1") = {2}

\* A code in the table whose hour has passed.
ExpiredCode(c) ==
    c \in DOMAIN telegram_link_codes /\ now > telegram_link_codes[c].expires_at

\* C11: validate_telegram_code on a stored code whose expires_at has passed
\* fails, returning no user id, and deletes the row, after which the code
\* keeps failing; on a code that is not in the table it fails and changes
\* nothing.
C11_ExpiredCodeRejected ==
    [][\A c \in CodeInputs :
         /\ ExpiredCode(c)
              => /\ validate_telegram_code_result(c, "none") =
                       Err("validate_telegram_code", "Link code has expired")
                 /\ ValidateTelegramCode(c, "none")
                      => /\ c \notin DOMAIN telegram_link_codes'
                         /\ ~validate_telegram_code_result(c, "none")'.ok
                         /\ UNCHANGED <<users, subscriptions, token_transactions>>
         /\ c \notin DOMAIN telegram_link_codes
              => /\ validate_telegram_code_result(c, "none") =
                       Err("validate_telegram_code", "Invalid or expired link code")
                 /\ ValidateTelegramCode(c, "none") => UNCHANGED centralVars]_vars

\* C11 witness: the first code was issued at time 0, its hour has passed and
\* it is gone from the table while its user has not been issued another.
C11_Witness ==
    /\ codes_issued = 1
    /\ Dead(1)
    /\ now > LinkCodeHours

(***************************************************************************)
(* Claims about registration and login.                                    *)
(***************************************************************************)
normalize(e) == to_lowercase(trim(e))

\* The errors of a register call that its validation or the duplicate test
\* refuses.
RegisterRefusals ==
    {Err("register", "Invalid email format"),
     Err("register", "Password must be at least 8 characters"),
     Err("register", "Email already registered")}

\* C12: register with an email whose trimmed, lower-cased form is that of an
\* existing user fails: with the 'already registered' error when the
\* password has at least 8 characters, with the password error otherwise; a
\* register refused for a duplicate email, a malformed email or a short
\* password creates no user row and no subscription row; and no two users
\* share a normalized email, every stored email being normalized.
C12_DuplicateEmailRefused ==
    /\ [](\A e \in RawEmails, p \in Passwords :
            UserByEmail(normalize(e)) # {}
            => register_result(e, p, "none") =
                 IF Len(p) >= MinPasswordLen
                 THEN Err("register", "Email already registered")
                 ELSE Err("register", "Password must be at least 8 characters"))
    /\ [](\A u1, u2 \in DOMAIN users :
            /\ users[u1].email = normalize(users[u1].email)
            /\ users[u1].email = users[u2].email => u1 = u2)
    /\ [][\A e \in RawEmails, p \in Passwords, db_err \in DbErrs \cup {"read"} :
            (register_result(e, p, db_err) \in RegisterRefusals
              /\ Register(e, p, db_err))
            => UNCHANGED <<users, subscriptions>>]_vars

\* C12 witness: the email typed with capitals and surrounding spaces has been
\* registered in its normalized form, and registering its plain spelling is
\* refused as a duplicate.
C12_Witness ==
    /\ \E u \in DOMAIN users : users[u].email = <<"a", "@", "b", ".", "c">>
    /\ Cardinality(DOMAIN users) = 2
    /\ register_result(<<" ", "A", "@", "B", ".", "c", " ">>, GoodPassword, "none")
         = Err("register", "Email already registered")

\* C12 as stated: whenever the normalized email is that of an existing user,
\* register fails with the 'already registered' error.
C12_AsStated ==
    \A e \in RawEmails, p \in Passwords :
        UserByEmail(normalize(e)) # {}
        => register_result(e, p, "none") = Err("register", "Email already registered")

\* The emails no user has, and the wrong passwords of a user who exists.
Unregistered == {e \in RawEmails : UserByEmail(normalize(e)) = {}}
WrongPasswords(e) ==
    {p \in Passwords :
        /\ UserByEmail(normalize(e)) # {}
        /\ ~verify_password(p, users[Unwrap(UserByEmail(normalize(e)))].password_hash)}

\* C13: login with an unregistered email and login with a registered email
\* and a wrong password return the same error, from AuthManager::login and
\* from handle_login (same text, same status 401), and a failed login
\* changes no stored row.
C13_LoginIndistinguishable ==
    /\ [](\A e1 \in Unregistered, p1 \in Passwords, e2 \in RawEmails :
            \A p2 \in WrongPasswords(e2) :
                /\ ~login_result(e1, p1, "none").ok
                /\ login_result(e1, p1, "none") = login_result(e2, p2, "none")
                /\ handle_login_result(e1, p1, "none") =
                     handle_login_result(e2, p2, "none")
                /\ handle_login_result(e1, p1, "none").status = 401)
    /\ [][\A e \in RawEmails, p \in Passwords, db_err \in DbErrs :
            (~login_result(e, p, db_err).ok /\ Login(e, p, db_err))
            => UNCHANGED centralVars]_vars

\* C13 witness: one user is registered and has logged in after the clock
\* moved, another email is unregistered, and a wrong password exists for the
\* registered one.
C13_Witness ==
    /\ DOMAIN users = {"u1"}
    /\ users["u1"].last_login = Some(1)
    /\ <<"x", "@", "y", ".", "z">> \in Unregistered
    /\ WrongPasswords(<<"a", "@", "b", ".", "c">>) # {}

(***************************************************************************)
(* C15.  Allowlist exactness.                                              *)
(***************************************************************************)
\* How many copies of c a text begins with, and how many it ends with.
LeadingCount(s, c) ==
    CHOOSE n \in 0..Len(s) :
        /\ \A i \in 1..n : s[i] = c
        /\ n = Len(s) \/ s[n + 1] # c

TrailingCount(s, c) ==
    CHOOSE n \in 0..Len(s) :
        /\ \A i \in 1..n : s[Len(s) + 1 - i] = c
        /\ n = Len(s) \/ s[Len(s) - n] # c

Trimmed(s) == SubSeq(s, LeadingCount(s, " ") + 1, Len(s) - TrailingCount(s, " "))
WithoutOneAt(s) == IF s # <<>> /\ s[1] = "@" THEN SubSeq(s, 2, Len(s)) ELSE s
WithoutLeadingAts(s) == SubSeq(s, LeadingCount(s, "@") + 1, Len(s))

\* Two texts are the same string: same length, same character at each place.
SameString(a, b) == Len(a) = Len(b) /\ \A i \in 1..Len(a) : a[i] = b[i]

AliceBot == Alice \o <<"_", "b", "o", "t">>
Alic == <<"a", "l", "i", "c">>
Malice == <<"m">> \o Alice
Probes ==
    { Alice, AliceBot, Alic, Malice, <<>>, <<"A", "l", "i", "c", "e">>,
      <<"@">> \o Alice, <<" ">> \o Alice \o <<" ">>, <<"@", "@">> \o Alice,
      <<" ", "@">> \o Alice, <<"@", " ">> \o Alice, Star, Unknown, Id42, Id7,
      Bob, <<" ">> }

\* C15: is_user_allowed(x) is true iff the allowlist contains '*' or an entry
\* that equals, case-sensitively and as a whole string, x after trimming and
\* stripping every leading '@'; with allowlist {alice} the identities
\* alice_bot, alic, malice and the empty string are rejected.
C15_AllowlistExactness ==
    /\ \A x \in Probes :
            is_user_allowed(x) <=>
                \/ Star \in allowed_users
                \/ \E e \in allowed_users :
                        SameString(e, WithoutLeadingAts(Trimmed(x)))
    /\ allowed_users = {Alice} =>
            \A x \in {AliceBot, Alic, Malice, <<>>} : ~is_user_allowed(x)

\* An allowlist {alice} that admits alice and turns alice_bot away.
C15_Witness ==
    /\ allowed_users = {Alice}
    /\ is_user_allowed(<<"@">> \o Alice)
    /\ ~is_user_allowed(AliceBot)

\* C15 as stated: x after trimming and stripping one leading '@'.
C15_AsStated ==
    /\ \A x \in Probes :
            is_user_allowed(x) <=>
                \/ Star \in allowed_users
                \/ \E e \in allowed_users :
                        SameString(e, WithoutOneAt(Trimmed(x)))
    /\ allowed_users = {Alice} =>
            \A x \in {AliceBot, Alic, Malice, <<>>} : ~is_user_allowed(x)

(***************************************************************************)
(* C14.  Only admitted senders reach the orchestrator.                     *)
(***************************************************************************)
\* The identities a sender has: the username and the numeric id its update
\* carries.  The allowlist admits a sender by one of them, or by its "*".
SenderIdentities(m) == m.username \cup m.user_id
Admitted(m) ==
    \/ Star \in allowed_users
    \/ \E id \in SenderIdentities(m) : is_user_allowed(id)

\* C14: listen forwards an update's message to the sink only if, when the
\* update is processed, the allowlist admits the sender's username or the
\* sender's numeric id.
C14_ForwardOnlyAdmitted ==
    [][sink' # sink => Admitted(Unwrap(current_update'))]_vars

(***************************************************************************)
(* C16.  Pairing.                                                          *)
(***************************************************************************)
\* The identity pairing gives a sender: the numeric id if the update has one,
\* else the username.
HasIdentity(m) == m.user_id # None \/ m.username # None
StableIdentity(m) ==
    IF m.user_id # None THEN Unwrap(m.user_id) ELSE Unwrap(m.username)

\* An update with a text and a chat, from a sender the allowlist turns away.
FromStranger(m) ==
    /\ m.text # None /\ m.chat_id # None
    /\ Star \notin allowed_users
    /\ Unknown \notin allowed_users
    /\ SenderIdentities(m) \cap allowed_users = {}

\* The pairing guard would accept this code now.
ValidPairingCode(code) ==
    /\ pairing # None
    /\ ~Unwrap(pairing).locked
    /\ Unwrap(pairing).code = Some(code)

Replied(content, chat_id) ==
    \E i \in Len(outbox) + 1 .. Len(outbox') :
        outbox'[i] = [content |-> content, recipient |-> chat_id]

\* C16: a transport started with an empty allowlist is in pairing mode; an
\* ordinary message of a stranger is not forwarded and is answered with the
\* operator-bind instruction; a stranger's /bind with the code the guard
\* accepts puts the sender's stable identity in the runtime allowlist; a
\* /bind with any other code leaves the allowlist as it was; the allowlist
\* never loses an entry, and a text message of a sender whose stable identity
\* it holds is forwarded.
C16_Pairing ==
    [][/\ (offset = 0 /\ allowed_users = {}) => pairing_code_active
       /\ allowed_users \subseteq allowed_users'
       /\ offset' # offset =>
            LET m == Unwrap(current_update')
            IN  /\ (FromStranger(m) /\ m.text = Some(Hi)) =>
                        /\ sink' = sink
                        /\ allowed_users' = allowed_users
                        /\ Replied("This bot requires operator approval",
                                   Unwrap(m.chat_id))
                /\ (/\ FromStranger(m) /\ HasIdentity(m)
                    /\ m.text = Some(BindText(PairingCode))
                    /\ ValidPairingCode(PairingCode)) =>
                        /\ StableIdentity(m) \in allowed_users'
                        /\ sink' = sink
                /\ (/\ FromStranger(m)
                    /\ \E code \in {PairingCode, "wrong"} :
                            /\ m.text = Some(BindText(code))
                            /\ ~ValidPairingCode(code)) =>
                        allowed_users' = allowed_users
                /\ (/\ HasIdentity(m) /\ StableIdentity(m) \in allowed_users
                    /\ m.text # None /\ m.chat_id # None) =>
                        /\ Len(sink') = Len(sink) + 1
                        /\ sink'[Len(sink')].content = Unwrap(m.text)
                        /\ allowed_users' = allowed_users]_vars

\* A stranger was told to ask the operator, then bound itself with the pairing
\* code, and its next message reached the orchestrator.
C16_Witness ==
    /\ pairing # None /\ Unwrap(pairing).code = None
    /\ Len(outbox) >= 3
    /\ outbox[1].content = "This bot requires operator approval"
    /\ outbox[3].content = "Telegram account bound successfully"
    /\ allowed_users = {Id42}
    /\ Len(sink) = 1 /\ sink[1].sender = Alice

(***************************************************************************)
(* C17.  Linking a registered user with /start <code>.                     *)
(***************************************************************************)
\* The update is /start <c> or /start@bot <c>.
StartsWith(m, c) == m.text \in {Some(StartText(c)), Some(StartAtText(c))}

\* c is a link code on record that has not expired.
ValidLinkCode(c) ==
    /\ c \in DOMAIN telegram_link_codes
    /\ now <= telegram_link_codes[c].expires_at

\* Telegram id `id` is linked to a user other than u.
LinkedElsewhere(id, u) ==
    \E v \in DOMAIN users \ {u} : users[v].telegram_id = Some(id)

\* Only user u's row differs, and it now carries Telegram id `id`.
BoundOnly(u, id) ==
    /\ DOMAIN users' = DOMAIN users
    /\ users'[u].telegram_id = Some(id)
    /\ \A v \in DOMAIN users \ {u} : users'[v] = users[v]

\* A text message with a chat, from a sender whose numeric id is allowed.
FromAllowedId(m) ==
    /\ m.text # None /\ m.chat_id # None
    /\ m.user_id # None /\ Unwrap(m.user_id) \in allowed_users

\* C17: when a stranger who has a numeric id sends /start <c> or
\* /start@bot <c> and c is a valid unexpired link code of user u, the code is
\* consumed; unless the sender's id is already linked to another user, the id
\* is bound to u and added to the allowlist, and from then on the sender's
\* text messages are forwarded.  When the id is linked to another user, or c
\* is invalid, expired or used, nothing is bound and the allowlist is as it
\* was.
C17_StartLinks ==
    [][offset' # offset =>
        LET m == Unwrap(current_update')
            id == Unwrap(m.user_id)
        IN  /\ allowed_users \subseteq allowed_users'
            /\ FromAllowedId(m) =>
                    /\ Len(sink') = Len(sink) + 1
                    /\ sink'[Len(sink')].content = Unwrap(m.text)
                    /\ UNCHANGED <<users, telegram_link_codes, allowed_users>>
            /\ \A c \in CodeInputs :
                (FromStranger(m) /\ m.user_id # None /\ StartsWith(m, c)) =>
                    /\ sink' = sink
                    /\ c \notin DOMAIN telegram_link_codes'
                    /\ IF ValidLinkCode(c)
                          /\ ~LinkedElsewhere(id, telegram_link_codes[c].user_id)
                         THEN /\ BoundOnly(telegram_link_codes[c].user_id, id)
                              /\ allowed_users' = allowed_users \cup {id}
                         ELSE /\ users' = users
                              /\ allowed_users' = allowed_users]_vars

\* Sender 7 linked itself to u1 with /start@bot 1, and its next message
\* reached the orchestrator.
C17_Witness ==
    /\ users["u1"].telegram_id = Some(Id7)
    /\ Id7 \in allowed_users
    /\ 1 \notin DOMAIN telegram_link_codes
    /\ Len(sink) = 1 /\ sink[1].sender = Id7

\* C17 as stated: a valid unexpired code always binds the sender.
C17_AsStated ==
    [][offset' # offset =>
        LET m == Unwrap(current_update')
            id == Unwrap(m.user_id)
        IN  /\ FromAllowedId(m) => Len(sink') = Len(sink) + 1
            /\ \A c \in CodeInputs :
                (FromStranger(m) /\ m.user_id # None /\ StartsWith(m, c)) =>
                    IF ValidLinkCode(c)
                    THEN /\ c \notin DOMAIN telegram_link_codes'
                         /\ BoundOnly(telegram_link_codes[c].user_id, id)
                         /\ id \in allowed_users'
                    ELSE /\ users' = users
                         /\ allowed_users' = allowed_users]_vars

(***************************************************************************)
(* C18.  Only the owner reaches an agent.                                  *)
(***************************************************************************)
Owns(caller, agent_id) ==
    agent_id \in DOMAIN agents /\ agents[agent_id].user_id = caller

\* The keys of the memory rows a step wrote.
Written ==
    {k \in DOMAIN memories' : k \notin DOMAIN memories \/ memories'[k] # memories[k]}

\* C18: a chat request goes on to the language model and to the agent's
\* memory only if the agent exists and belongs to the caller; chat,
\* GET /agents/:id and POST /telegram/:id/connect answer 404 for a missing
\* agent and 403 for another user's agent; every memory row written is
\* written by a turn of the agent's owner, under that agent's id.
C18_OwnerOnly ==
    /\ [](\A i \in 1..Len(chats) : Owns(chats[i].user_id, chats[i].agent_id))
    /\ [](\A caller \in {"u1", "u2"}, a \in {"a1", "a2"} :
            LET replies == { chat_lookup_result(caller, a, "none"),
                             get_agent_result(caller, a, "none"),
                             connect_telegram_result(caller, a, "none") }
            IN  /\ a \notin DOMAIN agents =>
                    \A r \in replies : ~r.ok /\ r.status = 404
                /\ (a \in DOMAIN agents /\ agents[a].user_id # caller) =>
                    \A r \in replies : ~r.ok /\ r.status = 403
                /\ Owns(caller, a) => \A r \in replies : r.ok)
    /\ [][/\ DOMAIN memories \subseteq DOMAIN memories'
          /\ Written # {} =>
                \E i \in 1..Len(chats) :
                    /\ chats[i].pc \in {"store_user", "store_assistant"}
                    /\ Owns(chats[i].user_id, chats[i].agent_id)
                    /\ \A k \in Written : k[1] = chats[i].agent_id]_vars

\* u1 has talked to its agent a1; u2 is registered and would be refused with
\* 403 on a1, and u1 with 404 on a2.
C18_Witness ==
    /\ Owns("u1", "a1") /\ "u2" \in DOMAIN users /\ "a2" \notin DOMAIN agents
    /\ \E i \in 1..Len(chats) : chats[i].pc = "done" /\ chats[i].status = 200
    /\ \E k \in DOMAIN memories : k[1] = "a1"
    /\ agents["a1"].telegram # None
    /\ chat_lookup_result("u2", "a1", "none").status = 403
    /\ chat_lookup_result("u1", "a2", "none").status = 404

(***************************************************************************)
(* C19, C20.  The memory of an agent.                                      *)
(***************************************************************************)
\* Everything the reads of the memory bound to agent a return.
Reads(a) ==
    [get |-> [k \in MemKeys |-> memory_get(a, k)],
     list |-> memory_list_all(a),
     by_category |-> [cat \in MemCategories |-> memory_list(a, cat)],
     recall |-> [limit \in 1..2 |-> memory_recall(a, "x", limit)],
     count |-> memory_count(a)]

\* The rows the reads of agent a hand out are rows of agent a.
OwnRowsOnly(a) ==
    /\ \A s \in memory_list_all(a) : \A i \in 1..Len(s) : s[i][1] = a
    /\ \A cat \in MemCategories :
            \A s \in memory_list(a, cat) : \A i \in 1..Len(s) : s[i][1] = a
    /\ \A limit \in 1..2 :
            \A s \in memory_recall(a, "x", limit) : \A i \in 1..Len(s) : s[i][1] = a

\* C19: a store or a forget through the memory bound to agent b changes
\* nothing that get, list, recall or count return for another agent a, also
\* under the same key; and the reads of a return rows of a only.
C19_MemoryConfined ==
    [][/\ \A a \in MemAgents : OwnRowsOnly(a)'
       /\ \A b \in MemAgents, k \in MemKeys :
            (\/ MemoryForget(b, k)
             \/ \E c \in MemContents, cat \in MemCategories :
                    MemoryStore(b, k, c, cat, TRUE))
            => \A a \in MemAgents \ {b} : Reads(a)' = Reads(a)]_vars

\* Both agents hold an entry under key k1, with different contents.
C19_Witness ==
    /\ memory_get("a1", "k1") # None /\ memory_get("a2", "k1") # None
    /\ Unwrap(memory_get("a1", "k1")).content = "x"
    /\ Unwrap(memory_get("a2", "k1")).content = "y"
    /\ memory_count("a1") = 1

\* C20: store on a key the agent already has replaces content, category,
\* embedding and created_at and leaves count() as it was; store on a new key
\* adds one entry; after either, get(key) returns the content just stored and
\* list() names the key once; forget(key) returns true iff the key existed,
\* removes exactly that entry, and get(key) is empty afterwards.
C20_UpsertAndForget ==
    [][\A a \in MemAgents, k \in MemKeys :
        /\ \A c \in MemContents, cat \in MemCategories :
            MemoryStore(a, k, c, cat, TRUE) =>
                /\ memories'[<<a, k>>] =
                        [content |-> c, category |-> cat,
                         embedding |-> embed_one(c), created_at |-> micros]
                /\ memory_get(a, k)' # None
                /\ Unwrap(memory_get(a, k)').content = c
                /\ memory_count(a)' =
                        IF memory_get(a, k) # None THEN memory_count(a)
                        ELSE memory_count(a) + 1
                /\ \A s \in memory_list_all(a)' :
                        Cardinality({i \in 1..Len(s) : s[i][2] = k}) = 1
        /\ MemoryForget(a, k) =>
                /\ memory_forget_result(a, k) <=> memory_get(a, k) # None
                /\ memory_get(a, k)' = None
                /\ memory_count(a)' =
                        IF memory_forget_result(a, k) THEN memory_count(a) - 1
                        ELSE memory_count(a)
                /\ \A j \in MemKeys \ {k} : memory_get(a, j)' = memory_get(a, j)]_vars

\* Key k1 of agent a1 was stored twice: the entry carries the second content
\* and the later timestamp, and it is the agent's only entry.
C20_Witness ==
    /\ memory_count("a1") = 1
    /\ memory_get("a1", "k1") # None
    /\ Unwrap(memory_get("a1", "k1")).content = "y"
    /\ Unwrap(memory_get("a1", "k1")).timestamp = 1
    /\ memory_get("a1", "k2") = None

(***************************************************************************)
(* C21.  What recall returns when the query names an entry.                *)
(***************************************************************************)
\* The rows of agent a whose key or whose content is the query.
ExactMatches(a, query) ==
    {k \in AgentKeys(a) : k[2] = query \/ memories[k].content = query}

\* C21: for every recall(query, limit) with limit >= 1, an entry whose key or
\* whose content equals the query is among the entries returned.  The cases
\* taken are those with at most `limit` such entries, where the statement can
\* be met at all.
C21_ExactMatchRecalled ==
    \A a \in MemAgents, query \in MemKeys \cup MemContents, limit \in 1..2 :
        Cardinality(ExactMatches(a, query)) <= limit =>
            \A s \in memory_recall(a, query, limit) :
                ExactMatches(a, query) \subseteq {s[i] : i \in 1..Len(s)}

(***************************************************************************)
(* C22.  A chat turn that fails.                                           *)
(***************************************************************************)
\* Chat request i is on the way to the language model or has failed there:
\* the positions a turn that ends in an error passes through.
BeforeAnswer(c) == c.pc \in {"load", "turn"} \/ (c.pc = "done" /\ c.status = 500)

\* The step is one of chat request i, and leaves it before an answer.
FailingStep(i) ==
    /\ i \in 1..Len(chats')
    /\ i \in 1..Len(chats) => chats'[i] # chats[i]
    /\ BeforeAnswer(chats'[i])

Purchases(u) ==
    {row \in BagToSet(token_transactions) :
        row.user_id = u /\ row.description = "Token purchase"}

\* Delivery i is a paid notification for the package 100k of user u.
PaidFor100k(i, u) ==
    /\ i \in 1..Len(webhooks)
    /\ webhooks[i].payload.order_id = Order(u, "100k")
    /\ is_successful(webhooks[i].payload.status)

\* C23: a trial user whose trial_tokens_used equals trial_tokens_limit gets
\* TrialExhausted from check_access; when the handler has processed a valid
\* paid webhook for user_<u>_pkg_100k through its activation, the subscription
\* of u is active with paid_until 30 days ahead, total_tokens_purchased is at
\* least 100000 and check_access(u) returns Allowed; and a subscription
\* becomes active only in a delivery whose token credit was stored.
C23_ExhaustedThenPaid ==
    /\ [](\A u \in DOMAIN subscriptions :
            (/\ subscriptions[u].status = "trial"
             /\ subscriptions[u].trial_tokens_used = subscriptions[u].trial_tokens_limit)
            => check_access(u) = "TrialExhausted")
    /\ [][\A i \in 1..MaxDeliveries, u \in DOMAIN users :
            (PaidFor100k(i, u) /\ WebhookActivate(i, "none")) =>
                /\ subscriptions'[u].status = "active"
                /\ subscriptions'[u].paid_until
                     = Some(now + WebhookSubscriptionDays * HoursPerDay)
                /\ subscriptions'[u].total_tokens_purchased >= 100000
                /\ check_access(u)' = "Allowed"]_vars
    /\ [][\A u \in DOMAIN subscriptions :
            (subscriptions'[u].status = "active" /\ subscriptions[u].status # "active")
            => /\ Purchases(u) # {}
               /\ subscriptions[u].total_tokens_purchased >= 100000
               /\ \E i \in 1..Len(webhooks) :
                    /\ webhooks[i].user_id = u
                    /\ webhooks[i].pc = "activate" /\ webhooks'[i].pc = "done"]_vars

\* u1 had used its whole trial limit, paid, and is now let in.
C23_Witness ==
    /\ subscriptions["u1"].trial_tokens_used = subscriptions["u1"].trial_tokens_limit
    /\ subscriptions["u1"].status = "active"
    /\ subscriptions["u1"].total_tokens_purchased >= 100000
    /\ check_access("u1") = "Allowed"
    /\ \E i \in 1..Len(webhooks) : PaidFor100k(i, "u1") /\ webhooks[i].pc = "done"

(***************************************************************************)
(* C24.  Webhooks that must not be credited.                               *)
(***************************************************************************)
\* The order id reads user_<user_id>_pkg_<package>, with a package of the
\* table.
WellFormedOrder(order_id) ==
    /\ Len(order_id) = 7
    /\ order_id[1] = "user" /\ order_id[2] = "_" /\ order_id[3] # "_"
    /\ order_id[4] = "_" /\ order_id[5] = "pkg" /\ order_id[6] = "_"
    /\ order_id[7] \in {"100k", "500k", "1m", "5m"}

\* C24: a paid webhook whose order id is not user_<user_id>_pkg_<package>
\* with a package of {100k, 500k, 1m, 5m}, and a webhook whose status is
\* neither paid nor paid_over, is not taken to add_tokens and changes neither
\* token_transactions nor subscriptions, and no activation is started for it.
C24_MalformedNotCredited ==
    [][\A payload \in Payloads, db_err \in DbErrs :
        (/\ WebhookReceive(payload, db_err)
         /\ \/ ~WellFormedOrder(payload.order_id)
            \/ lower_status(payload.status) \notin {"paid", "paid_over"})
        => /\ ~webhook_credits(payload)
           /\ token_transactions' = token_transactions
           /\ subscriptions' = subscriptions
           /\ webhooks' = webhooks]_vars

(***************************************************************************)
(* C25.  A payload altered after it was signed.                            *)
(***************************************************************************)
\* The payload carries a signature made with the configured key over fields
\* that are not the fields it has now.
Tampered(payload) ==
    /\ payload.sign # None /\ cryptomus_api_key # None
    /\ Unwrap(payload.sign).key = Unwrap(cryptomus_api_key)
    /\ Unwrap(payload.sign).data # SignedFields(payload) \/ ~payload.parses

\* The handler leaves the billing state as it is.
BillingUnchanged ==
    /\ token_transactions' = token_transactions
    /\ subscriptions' = subscriptions
    /\ webhooks' = webhooks

\* C25: with an API key configured, a payload whose fields other than sign
\* were altered after signing and which carries the original sign is refused
\* and never reaches add_tokens: with 401 'Invalid signature' when it still
\* parses, with 400 'Invalid payload' when the alteration removed a required
\* field; token_transactions and subscriptions stay as they are.
C25_TamperedRefused ==
    /\ [](\A payload \in ExhaustedPayloads :
            Tampered(payload) =>
                /\ ~webhook_credits(payload)
                /\ webhook_result(payload)
                     = IF payload.parses
                       THEN Http(401, FALSE, Some("Invalid signature"))
                       ELSE Http(400, FALSE, Some("Invalid payload")))
    /\ [][\A payload \in ExhaustedPayloads, db_err \in DbErrs :
            (Tampered(payload) /\ WebhookReceive(payload, db_err))
                => BillingUnchanged]_vars

\* A genuine payment of u1 has been credited; the same payload with its
\* package changed to 5m under the old signature is refused with 401.
C25_Witness ==
    /\ Purchases("u1") # {}
    /\ \E payload \in ExhaustedPayloads :
          /\ Tampered(payload) /\ payload.parses
          /\ payload.order_id = Order("u1", "5m")
          /\ webhook_result(payload).status = 401
          /\ webhook_credits([payload EXCEPT !.sign =
                    Some(md5_sign(SignedFields(payload), "key"))])

\* C25 as stated: every such payload is answered 401 'Invalid signature'.
C25_AsStated ==
    \A payload \in ExhaustedPayloads :
        Tampered(payload) =>
            /\ ~webhook_credits(payload)
            /\ webhook_result(payload) = Http(401, FALSE, Some("Invalid signature"))

(***************************************************************************)
(* C26, C27, C28.  Splitting and sending a long reply.                     *)
(***************************************************************************)
\* The chunks the split of the call in progress returned.
SplitChunks == Unwrap(sending).split.chunks

\* C26: every chunk split_message_for_telegram returns is at most 4096 long,
\* wherever the newlines and spaces of the message are, and a message of at
\* most 4096, in particular of exactly 4096, comes back as one chunk.
C26_ChunksWithinLimit ==
    sending # None =>
        /\ \A i \in 1..Len(SplitChunks) :
                str_len(SplitChunks[i]) <= TELEGRAM_MAX_MESSAGE_LENGTH
        /\ str_len(Unwrap(sending).message) <= TELEGRAM_MAX_MESSAGE_LENGTH
                => SplitChunks = <<Unwrap(sending).message>>

RECURSIVE Joined(_)
\* The chunks one after the other.
Joined(chunks) == IF chunks = <<>> THEN <<>> ELSE chunks[1] \o Joined(Tail(chunks))

RECURSIVE SameRuns(_)
\* The text with neighbouring runs of one character written as one run.
SameRuns(s) ==
    IF Len(s) <= 1 THEN s
    ELSE IF s[1].c = s[2].c
    THEN SameRuns(<<Run(s[1].c, s[1].n + s[2].n)>> \o SubSeq(s, 3, Len(s)))
    ELSE <<s[1]>> \o SameRuns(Tail(s))

\* C27: for every message m the split returns, and its chunks joined in
\* order are exactly m; no chunk of a non-empty message is empty.
C27_SplitPreservesContent ==
    sending # None =>
        /\ ~Unwrap(sending).split.panicked
        /\ SameRuns(Joined(SplitChunks)) = SameRuns(Unwrap(sending).message)
        /\ Unwrap(sending).message # <<>> =>
                \A i \in 1..Len(SplitChunks) : SplitChunks[i] # <<>>

RECURSIVE str_chars(_)
\* The length of a text in characters.
str_chars(s) ==
    IF s = <<>> THEN 0
    ELSE (IF s[1].c \in {ContinuesMark, ContinuedMark}
          THEN len_utf8(s[1].c) ELSE s[1].n) + str_chars(Tail(s))

\* The reply of 5000 characters of scenario S6 has been sent in two texts, the
\* first ending with the continues marker, the second starting with the
\* continued marker.
TwoMarkedTexts ==
    /\ Len(outbox) = 2
    /\ SubSeq(outbox[1].content, Len(outbox[1].content) - 1, Len(outbox[1].content))
            = <<Run("\n", 2), Run(ContinuesMark, 1)>>
    /\ SubSeq(outbox[2].content, 1, 2) = <<Run(ContinuedMark, 1), Run("\n", 2)>>

\* C28: the text of every sendMessage request, the chunk with its markers,
\* is at most 4096 characters long; and a reply of 5000 characters goes out
\* as exactly two texts, marked as continuing and as continued.
C28_SentTextsWithinLimit ==
    /\ \A i \in 1..Len(outbox) :
            str_chars(outbox[i].content) <= TELEGRAM_MAX_MESSAGE_LENGTH
    /\ (/\ sending # None
        /\ Unwrap(sending).result = "Ok"
        /\ str_chars(Unwrap(sending).message) = 5000) => TwoMarkedTexts

(***************************************************************************)
(* C29.  tenant_exists, get_tenant and delete_tenant.                      *)
(***************************************************************************)
\* C29: tenant_exists(u) is true after a get_tenant(u) that returned a
\* store, whether opened or taken from the cache, and false after a
\* delete_tenant(u) that returned Ok; delete_tenant removes a directory only
\* after it has evicted the user from the cache.
C29_TenantExistsProbe ==
    /\ [](\A u \in TenantIds :
            (get_tenant_result(u, "open").ok \/ get_tenant_result(u, "schema").ok)
                => tenant_exists(u))
    /\ [][\A u \in TenantIds :
            /\ GetTenant(u, "none") => tenant_exists(u)'
            /\ (DeleteTenantRemove(u, TRUE) \/ DeleteTenantRemove(u, FALSE))
                    /\ delete_tenant_result(u, TRUE).ok
                    /\ tenant_dirs' # tenant_dirs
                => ~tenant_exists(u)'
            /\ (u \in tenant_dirs /\ u \notin tenant_dirs') => u \in deleting]_vars
(***************************************************************************)
(* C30.  The cents calculate_cost returns and the price record_usage       *)
(* charges.                                                                *)
(***************************************************************************)
\* num / den rounded to the nearest integer, a half going away from zero, in
\* exact arithmetic (num given by its bits).
half_away(num, den) ==
    LET n == add_bits(<<0>> \o num, nat_bits(den), 0)
    IN  bits_nat(trim_bits(lsb_first(div_range(n, Len(n), 1, 0, 2 * den).q)))

\* USD x 100 at the rates of entry c (thousandths of a USD per 1M tokens),
\* rounded.
CentsAt(c, input_tokens, output_tokens) ==
    half_away(add_bits(mul_bits(nat_bits(input_tokens), nat_bits(c.input_cost_per_1m)),
                       mul_bits(nat_bits(output_tokens), nat_bits(c.output_cost_per_1m)),
                       0),
              10000000)

\* The cents the lookup order and the rates allow for a call.
ExpectedCents(provider, model, input_tokens, output_tokens) ==
    LET same == {k \in DOMAIN default_provider_costs :
                    key_starts_with(provider, default_provider_costs[k].name)}
    IN  IF <<provider, model>> \in DOMAIN default_provider_costs
        THEN {CentsAt(default_provider_costs[<<provider, model>>],
                      input_tokens, output_tokens)}
        ELSE IF same # {}
        THEN {CentsAt(default_provider_costs[k], input_tokens, output_tokens) : k \in same}
        ELSE {half_away(nat_bits(input_tokens + output_tokens), 10000)}

\* The rows a step has added to token_transactions.
RecordedRows == BagToSet(token_transactions' (-) token_transactions)

\* C30: calculate_cost uses the rate of the exact provider:model entry when
\* present, otherwise the rate of an entry of the same provider, otherwise
\* $1 per 1M total tokens, and returns USD x 100 rounded half away from zero:
\* 1800 cents for anthropic claude-3.5-sonnet with 1,000,000 input and
\* 1,000,000 output tokens, and 0 for Groq free models; record_usage then
\* charges price = round(cost x markup).  Checked on every usage row the
\* meter records for a call of CostCalls.
C30_CostContract ==
    [][\A row \in RecordedRows : \A call \in CostCalls :
            (row.provider = Some(call[1]) /\ row.model = Some(call[2])
                /\ row.amount = -(call[3] + call[4]))
            => /\ row.cost_cents \in ExpectedCents(call[1], call[2], call[3], call[4])
               /\ (call = <<"anthropic", "claude-3.5-sonnet", 1000000, 1000000>>
                        => row.cost_cents = 1800)
               /\ (call[1] = "groq" => row.cost_cents = 0)
               /\ row.price_cents = half_away(nat_bits(row.cost_cents * MarkupTenths), 10)
      ]_vars
(***************************************************************************)
(* C31.  The offset of the long-poll loop.                                 *)
(***************************************************************************)
\* The update listen has taken from the batch, and the request made last.
TakenUpdate == Unwrap(current_update)
LastPoll == polls[Len(polls)]

\* C31: the first getUpdates request carries offset 0; the updates of a batch
\* are taken in the order the server delivered them, and when one is parsed,
\* forwarded or answered the offset is already its update_id + 1; a request
\* that ends in ok=false (409 or another code), an HTTP error or a parse
\* error leaves the offset unchanged, sleeps 2 s (409) or 5 s, and the next
\* request carries the same offset.
C31_OffsetAdvance ==
    /\ [](/\ polls # <<>> => polls[1].offset = 0
          /\ (listen_state = "handle" /\ TakenUpdate.update_id # None)
                => offset = Unwrap(TakenUpdate.update_id) + 1
          /\ \A i \in 1..(Len(polls) - 1) :
                polls[i].outcome # "ok" => polls[i + 1].offset = polls[i].offset)
    /\ [][/\ (sink' # sink \/ outbox' # outbox \/ listen_state' = "returned")
                => /\ listen_state = "handle"
                   /\ TakenUpdate.update_id # None
                        => offset = Unwrap(TakenUpdate.update_id) + 1
          /\ (batch # <<>> /\ batch' # batch)
                => /\ current_update' = Some(Head(batch))
                   /\ batch' = Tail(batch)
          /\ (polls' # polls /\ LastPoll'.outcome # "ok")
                => /\ offset' = offset
                   /\ batch' = <<>>
                   /\ listen_state' = "poll"
                   /\ LastPoll'.sleep = IF LastPoll'.outcome = "409" THEN 2 ELSE 5
         ]_vars

\* An update with id 7 has been taken and handled, the request after it ran
\* into a polling conflict and the one after that was made.
C31_Witness ==
    /\ Len(polls) = 3
    /\ polls[2].outcome = "409"
    /\ polls[2].offset = 8
    /\ polls[3].offset = 8
    /\ offset = 8
(***************************************************************************)
(* C34.  listen and the closed sink.                                       *)
(***************************************************************************)
\* C34: when listen tries to forward a message into a sink that has been
\* closed, the forward fails, nothing is appended to the sink and listen
\* returns; once it has returned no getUpdates request is made, nothing is
\* forwarded, answered or taken from a batch, and a closed sink never grows.
C34_SinkClosedStops ==
    [][/\ (/\ listen_state = "handle" /\ ~sink_open
           /\ parse_update_message(TakenUpdate) # None
           /\ \E persist_ok \in BOOLEAN : ListenHandle(persist_ok, FALSE))
            => listen_state' = "returned" /\ sink' = sink
       /\ listen_state = "returned"
            => /\ listen_state' = "returned"
               /\ UNCHANGED <<polls, sink, outbox, offset, batch, current_update>>
       /\ listen_state' = "returned" => ~sink_open
       /\ ~sink_open => sink' = sink /\ ~sink_open'
      ]_vars

\* listen has returned with a request still to spare and an update of the
\* batch not yet taken.
C34_Witness ==
    /\ listen_state = "returned"
    /\ Len(polls) < MaxPolls
    /\ batch # <<>>
    /\ sink # <<>>
(***************************************************************************)
(* Conversation history.                                                   *)
(***************************************************************************)
\* The rows of agent a1's history that hold `content` under a key of `role`.
StoredAs(role, content) ==
    {k \in CategoryKeys("a1", HistoryCategory) :
        k[2][3] = role /\ memories[k].content = content}

\* The turn has replied 200.
TurnReplied(i) == chats[i].pc = "done" /\ chats[i].status = 200

\* The messages of the turns 1..i that replied 200, oldest first, each
\* user message followed by its answer.
RECURSIVE earlier_turns(_)
earlier_turns(i) ==
    IF i = 0 THEN <<>>
    ELSE earlier_turns(i - 1) \o
         (IF TurnReplied(i)
          THEN <<[role |-> "user", content |-> chats[i].message],
                 [role |-> "assistant",
                  content |-> Unwrap(chats[i].response_text)]>>
          ELSE <<>>)

\* C32: with serialized turns on one agent, every turn that replied 200 has
\* stored exactly one entry hist_<t_user>_user and one entry
\* hist_<t_asst>_assistant with t_asst > t_user under custom("history"),
\* nothing else is stored there, and the history a later turn loaded is the
\* messages of the earlier successful turns in chronological order, each
\* user message immediately before its answer.
C32_HistoryOrdered ==
    /\ \A i \in 1..Len(chats) :
          TurnReplied(i) =>
            /\ Cardinality(StoredAs("user", chats[i].message)) = 1
            /\ Cardinality(StoredAs("assistant",
                                    Unwrap(chats[i].response_text))) = 1
            /\ \A ku \in StoredAs("user", chats[i].message),
                  ka \in StoredAs("assistant", Unwrap(chats[i].response_text)) :
                    ka[2][2] > ku[2][2]
    /\ (\A i \in 1..Len(chats) : chats[i].pc = "done") =>
          Cardinality(CategoryKeys("a1", HistoryCategory))
            = 2 * Cardinality({i \in 1..Len(chats) : TurnReplied(i)})
    /\ \A i \in 1..Len(chats) :
          chats[i].pc # "load" => chats[i].history = earlier_turns(i - 1)

\* C36: with concurrent turns on one agent, once all have completed the
\* history holds the user entry and the assistant entry of every turn that
\* replied 200: no entry was overwritten by another turn's upsert.
C36_NoKeyCollision ==
    (\A i \in 1..Len(chats) : chats[i].pc = "done") =>
        \A i \in 1..Len(chats) :
            TurnReplied(i) =>
              /\ StoredAs("user", chats[i].message) # {}
              /\ StoredAs("assistant", Unwrap(chats[i].response_text)) # {}

(***************************************************************************)
(* Attachment markers.                                                     *)
(***************************************************************************)
\* The bracket pairs of a content: a "[" and the nearest "]" after it.
BracketPairs(content) ==
    {pr \in {i \in 1..Len(content) : content[i] = "["}
            \X {i \in 1..Len(content) : content[i] = "]"} :
        /\ pr[1] < pr[2]
        /\ \A j \in (pr[1] + 1)..(pr[2] - 1) : content[j] # "]"}

\* The markers among the bracket pairs `pairs`, read from the left: pairs
\* that do not overlap, the "[" of every other pair lying inside one of them.
MarkersAmong(pairs) ==
    CHOOSE S \in SUBSET pairs :
        /\ \A pr, q \in S : pr # q => pr[2] < q[1] \/ q[2] < pr[1]
        /\ \A pr \in pairs \ S : \E q \in S : q[1] < pr[1] /\ pr[1] <= q[2]

MarkersOf(content) == MarkersAmong(BracketPairs(content))

\* The markers that name an attachment.
ValidMarkers(content) ==
    {pr \in MarkersOf(content) :
        parse_marker(SubSeq(content, pr[1] + 1, pr[2] - 1)) # None}

RECURSIVE in_order(_)
\* The pairs of a set by their position.
in_order(S) ==
    IF S = {} THEN <<>>
    ELSE LET first == CHOOSE pr \in S : \A q \in S : pr[1] <= q[1]
         IN  <<first>> \o in_order(S \ {first})

\* The content without the markers `valid`, trimmed.
TextOutsideMarkers(content, valid) ==
    LET kept == SelectSeq([i \in 1..Len(content) |-> <<i, content[i]>>],
                          LAMBDA t : \A pr \in valid : t[1] < pr[1] \/ t[1] > pr[2])
    IN  trim([i \in 1..Len(kept) |-> kept[i][2]])

\* The requests the claim expects for a content whose valid markers are
\* `valid`.
ExpectedRequests(content, valid, chat_id) ==
    LET text == TextOutsideMarkers(content, valid)
        markers == in_order(valid)
    IN  (IF text # <<>> THEN <<SendMessage(text, chat_id)>> ELSE <<>>)
        \o [i \in 1..Len(markers) |->
              SendAttachment(Unwrap(parse_marker(
                  SubSeq(content, markers[i][1] + 1, markers[i][2] - 1))), chat_id)]

\* The requests the last step added to the outbox.
NewRequests == SubSeq(outbox', Len(outbox) + 1, Len(outbox'))

\* C33: a send of a content with at least one valid marker [KIND:target]
\* transmits the text outside the valid markers first and then the
\* attachments in the order of their markers, stopping at the first request
\* that fails; markers that do not parse are part of the text; and
\* "See chart [IMAGE:/tmp/chart.png]" gives the text "See chart" and then one
\* image.
C33_TextThenAttachments ==
    [][sending' # sending \/ outbox' # outbox =>
        \A call \in sending', valid \in {ValidMarkers(Unwrap(sending').message)} :
          \A expected \in {ExpectedRequests(call.message, valid, call.recipient)} :
            /\ valid # {} =>
                /\ Len(NewRequests) <= Len(expected)
                /\ NewRequests = SubSeq(expected, 1, Len(NewRequests))
                /\ call.result = "Ok" => NewRequests = expected
                /\ \A i, j \in 1..Len(NewRequests) :
                      "target" \in DOMAIN NewRequests[i]
                      /\ "content" \in DOMAIN NewRequests[j] => j < i
            /\ call.message = SeeChart /\ call.result = "Ok" =>
                NewRequests = <<SendMessage(<<"See", " ", "chart">>, call.recipient),
                                SendAttachment(TelegramAttachment("Image",
                                    <<"/tmp/chart.png">>), call.recipient)>>]_vars

C33_Witness ==
    /\ sending # None
    /\ Unwrap(sending).message = SeeChart
    /\ Unwrap(sending).result = "Ok"
    /\ outbox = <<SendMessage(<<"See", " ", "chart">>, "chat1"),
                  SendAttachment(TelegramAttachment("Image", <<"/tmp/chart.png">>),
                                 "chat1")>>

(***************************************************************************)
(* The ledger.                                                             *)
(***************************************************************************)
RECURSIVE amount_sum(_)
\* The sum of amount over a set of distinct transaction rows, each counted as
\* often as the table holds it.
amount_sum(rows) ==
    IF rows = {} THEN 0
    ELSE LET r == CHOOSE x \in rows : TRUE
         IN  r.amount * CopiesIn(r, token_transactions) + amount_sum(rows \ {r})

\* The tokens the transactions of a user record as used, and as purchased.
UsedInLedger(u) ==
    -amount_sum({r \in BagToSet(token_transactions) : r.user_id = u /\ r.amount < 0})
PurchasedInLedger(u) ==
    amount_sum({r \in BagToSet(token_transactions) : r.user_id = u /\ r.amount > 0})

\* C35: for every user with a subscription, trial_tokens_used is the sum of
\* -amount over the user's negative transactions and total_tokens_purchased
\* is the sum of amount over the user's positive transactions, after any
\* sequence of record_usage, add_tokens and activate_subscription calls.
C35_LedgerConsistent ==
    \A u \in DOMAIN subscriptions :
        /\ subscriptions[u].trial_tokens_used = UsedInLedger(u)
        /\ subscriptions[u].total_tokens_purchased = PurchasedInLedger(u)

(***************************************************************************)
(* The cache of tenant stores under interleaving.                          *)
(***************************************************************************)
\* C37: while u is cached a get_tenant(u) hands out the cached store and
\* opens nothing, so no user has two open stores; and when a delete_tenant(u)
\* returns, the cache holds a store for u only if tenants/<u>/brain.db
\* exists.
C37_CacheMatchesDisk ==
    [][\A u \in TenantIds :
          /\ (u \in tenants /\ \E open_err \in OpenErrs : GetTenant(u, open_err))
                => /\ get_tenant_result(u, "open").ok
                   /\ UNCHANGED <<tenants, tenant_dirs, brain_dbs>>
          /\ (\E remove_ok \in BOOLEAN : DeleteTenantRemove(u, remove_ok))
                => (u \in tenants' => tenant_exists(u)')]_vars

(***************************************************************************)
(* Commands of admitted senders.                                           *)
(***************************************************************************)
\* The text is /start <code> or /bind <code>.
IsLinkOrBindCommand(text) ==
    \/ extract_bind_code(text) # None
    \/ parse_start_command(text).kind = "LinkCode"

\* C38: when listen handles a /start <code> or /bind <code> message of a
\* sender the allowlist admits (any sender under "*"), the message goes to
\* the orchestrator as it is, and nothing else happens: no reply, no pairing
\* attempt, no link code consumed, no user's Telegram binding changed, no
\* allowlist entry added.
C38_AdmittedCommandForwarded ==
    [][offset' # offset =>
        \A update \in current_update' :
            (/\ update.text # None /\ update.chat_id # None
             /\ IsLinkOrBindCommand(Unwrap(update.text))
             /\ is_any_user_allowed(identities_of(update)))
            => /\ Len(sink') = Len(sink) + 1
               /\ SubSeq(sink', 1, Len(sink)) = sink
               /\ sink'[Len(sink')].content = Unwrap(update.text)
               /\ sink'[Len(sink')].sender = sender_identity(update)
               /\ UNCHANGED <<users, subscriptions, token_transactions,
                              telegram_link_codes, codes_issued, allowed_users,
                              persisted_users, pairing, outbox>>]_vars

\* C38 witness: alice, on the allowlist, has sent /start with a code that is
\* valid for u1; the message was forwarded, the code is still there and u1 is
\* not linked.
C38_Witness ==
    /\ Alice \in allowed_users
    /\ \E i \in 1..Len(sink) :
          sink[i].content = StartText(1) /\ sink[i].sender = Alice
    /\ 1 \in DOMAIN telegram_link_codes
    /\ telegram_link_codes[1].user_id = "u1"
    /\ users["u1"].telegram_id = None
    /\ outbox = <<>>

(***************************************************************************)
(* The status of a subscription.                                           *)
(***************************************************************************)
\* C39: a subscription row starts as trial, its status changes only from
\* trial to active and only by the update of activate_subscription, which
\* always leaves the row active; an active row stays active and no step
\* writes expired or removes a row.
C39_StatusForward ==
    [][/\ \A u \in DOMAIN subscriptions' \ DOMAIN subscriptions :
            subscriptions'[u].status = "trial"
       /\ \A u \in DOMAIN subscriptions :
            /\ u \in DOMAIN subscriptions'
            /\ subscriptions'[u].status \in {"trial", "active"}
            /\ subscriptions[u].status = "active"
                  => subscriptions'[u].status = "active"
            /\ subscriptions'[u].status # subscriptions[u].status
                  => /\ subscriptions[u].status = "trial"
                     /\ subscriptions'[u] =
                            [subscriptions[u] EXCEPT
                                !.status = "active",
                                !.paid_until =
                                    Some(now + WebhookSubscriptionDays * HoursPerDay)]
            /\ ActivateSubscription(u, WebhookSubscriptionDays, "none")
                  => subscriptions'[u].status = "active"]_vars

\* C39 witness: a user activated after exhausting the trial, used on after
\* the activation and activated again later, beside a user still on trial.
C39_Witness ==
    \E u, v \in DOMAIN subscriptions :
        /\ subscriptions[u].status = "active"
        /\ subscriptions[u].trial_tokens_used >= subscriptions[u].trial_tokens_limit
        /\ now > 0
        /\ subscriptions[u].paid_until = Some(now + WebhookSubscriptionDays * HoursPerDay)
        /\ subscriptions[v].status = "trial"

(***************************************************************************)
(* calculate_cost as a function of its arguments.                          *)
(***************************************************************************)
\* C40: calculate_cost is a function of (provider, model, input_tokens,
\* output_tokens): two usages recorded for equal arguments, by one meter or
\* by two, carry the same cost_cents, also when the exact provider:model key
\* is absent and several entries of the table share the provider name.  (The
\* calls of this specification differ in provider, model or total tokens, so
\* equal provider, model and amount mean equal arguments.)
C40_CostDeterministic ==
    \A r1, r2 \in BagToSet(token_transactions) :
        (r1.provider = r2.provider /\ r1.model = r2.model /\ r1.amount = r2.amount)
            => r1.cost_cents = r2.cost_cents

====
